---- MODULE Spec2Model ----
(***************************************************************************)
(* Build/publish execution pipeline of the master-plan admin service:      *)
(* the job tracker (app/services/job_service.py), the SSE broadcaster      *)
(* (app/lib/sse.py) and the publish orchestrator                           *)
(* (app/jobs/publish_job.py).                                              *)
(*                                                                         *)
(* Python values are represented as follows.                               *)
(*   Optional[str]   : a string, with None the sentinel None               *)
(*   Optional[X]     : a sequence of length <= 1 (<<>> is None)            *)
(*   dict            : a function from its keys                            *)
(*   list            : a sequence                                          *)
(*   datetime.utcnow : the counter now, advanced by every operation        *)
(***************************************************************************)
EXTENDS Integers, Sequences, FiniteSets, TLC

VARIABLES
    jobs,        \* the jobs table: job id -> row (DOMAIN jobs = ids that exist)
    now,         \* the clock read by datetime.utcnow()
    channels,    \* SSEManager._channels: channel -> set of subscribers
    queues,      \* Subscriber.queue of every subscriber created so far
    published,   \* history: channel -> sequence of messages passed to broadcast
    call,        \* the last Job Tracker call: [op, id, ret]
    streams,     \* the stream generators: stream -> [pc, channel, sub, ...]
    version,     \* the ProjectVersion row of the version being published
    project,     \* the Project row
    storage,     \* the object store: key -> content
    run          \* the publish orchestrator run: its position and locals

vars == <<jobs, now, channels, queues, published, call, streams,
          version, project, storage, run>>

---------------------------------------------------------------------------
(* Bounds and input sets *)

\* number of Job Tracker operations explored in SpecJobs
MaxOps == 4

JobIds == {"j1", "j2"}

None == "None"
NoTime == -1

Percents == {-20, 40, 120}
ProgressMessages == {None, "Working"}
LogLevels == {"info", "warn"}
LogMessages == {"note"}
Metadata == {<<>>, <<[version_number |-> 1]>>}
ResultPatches == {<<>>, <<[release_id |-> "rel_1"]>>}
Errors == {"boom"}

Terminal == {"completed", "failed", "cancelled"}

---------------------------------------------------------------------------
(* Small helpers *)

\* the orders in which a query can return a set of rows
Orders(S) ==
    {q \in [1..Cardinality(S) -> S] : \A x \in S : \E i \in DOMAIN q : q[i] = x}

\* the orders a query with an ORDER BY clause can return the rows of S in:
\* no row comes after a row it precedes, rows that tie come in any order
OrderedBy(S, Precedes(_, _)) ==
    LET RECURSIVE from(_)
        from(T) ==
            IF T = {} THEN {<<>>}
            ELSE UNION {{<<x>> \o q : q \in from(T \ {x})} :
                           x \in {y \in T : \A z \in T : ~Precedes(z, y)}}
    IN from(S)

Min(a, b) == IF a < b THEN a ELSE b
Max(a, b) == IF a > b THEN a ELSE b

\* {**a, **b}
DictMerge(a, b) ==
    [k \in (DOMAIN a) \cup (DOMAIN b) |-> IF k \in DOMAIN b THEN b[k] ELSE a[k]]

\* x or {}  for an Optional[dict]
OrEmpty(opt) == IF opt = <<>> THEN <<>> ELSE opt[1]

\* truthiness of an Optional[dict]
Truthy(opt) == opt # <<>> /\ DOMAIN opt[1] # {}

IsPrefix(s, t) == Len(s) <= Len(t) /\ SubSeq(t, 1, Len(s)) = s

---------------------------------------------------------------------------
(* SSE manager: app/lib/sse.py *)

SSEMessage(data, event, id) ==
    [data |-> data, event |-> event, id |-> id, retry |-> <<>>]

\* self._channels.get(channel, set())
Members(channel) ==
    IF channel \in DOMAIN channels THEN channels[channel] ELSE {}

\* SSEManager.broadcast: the message is put on the queue of every subscriber
\* of the channel; the history records the call.
broadcast(channel, message) ==
    /\ queues' = [s \in DOMAIN queues |->
                    IF s \in Members(channel)
                    THEN Append(queues[s], message)
                    ELSE queues[s]]
    /\ published' =
         [c \in (DOMAIN published) \cup {channel} |->
            IF c = channel
            THEN Append(IF c \in DOMAIN published THEN published[c] ELSE <<>>,
                        message)
            ELSE published[c]]

\* json.dumps, as an injective rendering of the payload
json_dumps(data) == IF DOMAIN data = {} THEN "{}" ELSE ToString(data)

\* an encoding that does not end the message with an empty line
encode_without_empty_line(m) ==
    (IF m.id # <<>> /\ m.id[1] # "" THEN "id: " \o m.id[1] \o "\n" ELSE "")
    \o (IF m.event # "message" THEN "event: " \o m.event \o "\n" ELSE "")
    \o "data: " \o json_dumps(m.data) \o "\n"

\* SSEMessage.encode
encode(m) ==
    (IF m.id # <<>> /\ m.id[1] # "" THEN "id: " \o m.id[1] \o "\n" ELSE "")
    \o (IF m.event # "message" THEN "event: " \o m.event \o "\n" ELSE "")
    \o (IF m.retry # <<>> /\ m.retry[1] # 0
        THEN "retry: " \o ToString(m.retry[1]) \o "\n" ELSE "")
    \o "data: " \o json_dumps(m.data) \o "\n"
    \o "\n"

\* the keep-alive message built by stream on a timeout
ping == SSEMessage(<<>>, "ping", <<>>)

\* the subscriber created by the next subscribe
NewSubscriber == Len(queues) + 1

\* Subscriber is declared @dataclass with the default eq=True and neither
\* frozen nor unsafe_hash, so the class gets __hash__ = None: an instance
\* cannot be added to a set, and set.add(subscriber) raises TypeError
Subscriber_hashable == FALSE

\* self._channels after self._channels[channel] was evaluated: the defaultdict
\* creates the entry of a channel it does not hold
defaultdict_getitem(channel) ==
    [c \in (DOMAIN channels) \cup {channel} |-> Members(c)]

\* self._channels after self._channels[channel].add(sub) returned
subscribe(channel, sub) ==
    [c \in (DOMAIN channels) \cup {channel} |->
        IF c = channel THEN Members(c) \cup {sub} ELSE channels[c]]

\* self._channels after SSEManager.unsubscribe(channel, sub): the subscriber
\* is discarded and a channel left empty is deleted. The discard hashes its
\* argument: with an unhashable Subscriber it raises after the entry of the
\* channel was created, and the deletion of line 76 is not reached.
unsubscribe(channel, sub) ==
    IF Subscriber_hashable
    THEN [c \in {d \in (DOMAIN channels) \cup {channel} :
                   d # channel \/ Members(d) \ {sub} # {}} |->
             IF c = channel THEN Members(c) \ {sub} ELSE channels[c]]
    ELSE defaultdict_getitem(channel)

\* what the stream does with a message taken from its queue: it is yielded,
\* and a terminal event breaks the loop
after_message(message) ==
    IF message.event \in {"completed", "failed", "cancelled"}
    THEN "yielded_terminal"
    ELSE "waiting"

\* SSEManager.stream(channel, ping_interval, initial_message) is called: the
\* generator exists, nothing of it has run
stream_call(s, channel, initial_message) ==
    /\ s \notin DOMAIN streams
    /\ streams' = [k \in (DOMAIN streams) \cup {s} |->
                     IF k = s
                     THEN [pc |-> "created", channel |-> channel, sub |-> 0,
                           initial |-> initial_message, from |-> 0,
                           out |-> <<>>, exc |-> None]
                     ELSE streams[k]]
    /\ UNCHANGED <<channels, queues, published>>

\* first iteration: subscribe (line 118, before the try), then yield the
\* initial message if there is one. The add of subscribe raises, after the
\* entry of the channel was created; the exception leaves the generator
\* without entering the try, so the finally does not run.
stream_first(s) ==
    /\ s \in DOMAIN streams
    /\ streams[s].pc = "created"
    /\ LET st == streams[s]
           hist == IF st.channel \in DOMAIN published
                   THEN published[st.channel] ELSE <<>>
       IN
         IF Subscriber_hashable
         THEN /\ channels' = subscribe(st.channel, NewSubscriber)
              /\ queues' = Append(queues, <<>>)
              /\ streams' = [streams EXCEPT ![s] =
                               [st EXCEPT !.pc = "waiting",
                                          !.sub = NewSubscriber,
                                          !.from = Len(hist),
                                          !.out = IF st.initial # <<>>
                                                  THEN <<encode(st.initial[1])>>
                                                  ELSE <<>>]]
         ELSE /\ channels' = defaultdict_getitem(st.channel)
              /\ queues' = queues
              /\ streams' = [streams EXCEPT ![s] =
                               [st EXCEPT !.pc = "raised",
                                          !.exc = "TypeError"]]
    /\ UNCHANGED published

\* wait_for(queue.get()) returns a message: it is yielded
stream_message(s) ==
    /\ s \in DOMAIN streams
    /\ streams[s].pc = "waiting"
    /\ queues[streams[s].sub] # <<>>
    /\ LET st == streams[s]
           message == Head(queues[st.sub])
       IN
         /\ queues' = [queues EXCEPT ![st.sub] = Tail(@)]
         /\ streams' = [streams EXCEPT ![s] =
                          [st EXCEPT !.out = Append(@, encode(message)),
                                     !.pc = after_message(message)]]
    /\ UNCHANGED <<channels, published>>

\* wait_for times out on an empty queue: a ping is yielded
stream_timeout(s) ==
    /\ s \in DOMAIN streams
    /\ streams[s].pc = "waiting"
    /\ queues[streams[s].sub] = <<>>
    /\ streams' = [streams EXCEPT ![s].out = Append(@, encode(ping))]
    /\ UNCHANGED <<channels, queues, published>>

\* resumed after the terminal message: break, finally: unsubscribe
stream_end(s) ==
    /\ s \in DOMAIN streams
    /\ streams[s].pc = "yielded_terminal"
    /\ channels' = unsubscribe(streams[s].channel, streams[s].sub)
    /\ streams' = [streams EXCEPT ![s].pc = "done"]
    /\ UNCHANGED <<queues, published>>

\* the consumer disconnects and the generator is closed: a generator that
\* has not started runs nothing, one suspended in the try runs the finally,
\* which unsubscribes
stream_close(s) ==
    /\ s \in DOMAIN streams
    /\ streams[s].pc \in {"created", "waiting", "yielded_terminal",
                           "single_created", "single_yielded"}
    /\ channels' = IF streams[s].pc \in {"waiting", "yielded_terminal"}
                   THEN unsubscribe(streams[s].channel, streams[s].sub)
                   ELSE channels
    /\ streams' = [streams EXCEPT ![s].pc = "closed"]
    /\ UNCHANGED <<queues, published>>

---------------------------------------------------------------------------
(* Job tracker: app/services/job_service.py, app/models/job.py *)

\* Job.to_dict
to_dict(job) ==
    [id |-> job.id, job_type |-> job.job_type, status |-> job.status,
     progress |-> job.progress, message |-> job.message,
     result |-> job.result, error |-> job.error, logs |-> job.logs,
     created_at |-> job.created_at, started_at |-> job.started_at,
     completed_at |-> job.completed_at]

\* JobService.get_channel
get_channel(job_id) == "job:" \o job_id

\* JobService._broadcast_update
_broadcast_update(job, event) ==
    broadcast(get_channel(job.id),
              SSEMessage(to_dict(job), event, <<ToString(job.progress)>>))

\* a log write that replaces the list instead of extending it
_add_log_overwrite(job, message, level) ==
    [job EXCEPT !.logs = <<[timestamp |-> now, level |-> level,
                            message |-> message]>>]

\* JobService._add_log
_add_log(job, message, level) ==
    [job EXCEPT !.logs = @ \o <<[timestamp |-> now, level |-> level,
                                 message |-> message]>>]

\* the row written by create_job
new_job(job_id, job_type, metadata) ==
    [id |-> job_id, job_type |-> job_type, status |-> "queued",
     progress |-> 0, message |-> "Job queued", result |-> metadata,
     error |-> None, logs |-> <<>>, created_at |-> now,
     started_at |-> NoTime, completed_at |-> NoTime]

\* the fields start_job assigns
start_job_fields(job) ==
    _add_log([job EXCEPT !.status = "running", !.started_at = now,
                         !.progress = 0, !.message = "Job started"],
             "Job started", "info")

\* an update that stores the percent as it is given
update_progress_fields_unclamped(job, progress, message) ==
    [job EXCEPT !.progress = progress,
                !.message = IF message # None THEN message ELSE @]

\* the fields update_progress assigns
update_progress_fields(job, progress, message) ==
    [job EXCEPT !.progress = Min(100, Max(0, progress)),
                !.message = IF message # None THEN message ELSE @]

\* the fields complete_job assigns
complete_job_fields(job, result) ==
    _add_log([job EXCEPT !.status = "completed", !.progress = 100,
                         !.message = "Job completed", !.completed_at = now,
                         !.result = IF Truthy(result)
                                    THEN <<DictMerge(OrEmpty(@), result[1])>>
                                    ELSE @],
             "Job completed successfully", "info")

\* the fields fail_job assigns
fail_job_fields(job, error) ==
    _add_log([job EXCEPT !.status = "failed", !.error = error,
                         !.message = "Job failed: " \o error,
                         !.completed_at = now],
             "Job failed: " \o error, "error")

\* a cancel that forgets its log entry
cancel_job_fields_no_log(job) ==
    [job EXCEPT !.status = "cancelled", !.message = "Job cancelled",
                !.completed_at = now]

\* the fields cancel_job assigns to a job that is queued or running
cancel_job_fields(job) ==
    _add_log([job EXCEPT !.status = "cancelled", !.message = "Job cancelled",
                         !.completed_at = now],
             "Job cancelled by user", "warn")

\* db.commit of a changed row, the clock moving on
Commit(job) ==
    /\ jobs' = [jobs EXCEPT ![job.id] = job]
    /\ now' = now + 1

\* an operation that creates the row it does not find
NotFound_creating(op, job_id) ==
    /\ job_id \notin DOMAIN jobs
    /\ call' = [op |-> op, id |-> job_id, ret |-> <<>>]
    /\ now' = now + 1
    /\ jobs' = [k \in (DOMAIN jobs) \cup {job_id} |->
                  IF k = job_id THEN new_job(job_id, "publish", <<>>)
                  ELSE jobs[k]]
    /\ UNCHANGED <<queues, published>>

\* an operation called with an id that has no row returns None
NotFound(op, job_id) ==
    /\ job_id \notin DOMAIN jobs
    /\ call' = [op |-> op, id |-> job_id, ret |-> <<>>]
    /\ now' = now + 1
    /\ UNCHANGED <<jobs, queues, published>>

Returned(op, job) == call' = [op |-> op, id |-> job.id, ret |-> <<job>>]

create_job(job_id, job_type, metadata) ==
    /\ job_id \notin DOMAIN jobs
    /\ LET job == new_job(job_id, job_type, metadata) IN
         /\ jobs' = [k \in (DOMAIN jobs) \cup {job_id} |->
                       IF k = job_id THEN job ELSE jobs[k]]
         /\ now' = now + 1
         /\ _broadcast_update(job, "job_update")
         /\ Returned("create_job", job)

start_job(job_id) ==
    \/ NotFound("start_job", job_id)
    \/ /\ job_id \in DOMAIN jobs
       /\ LET job == start_job_fields(jobs[job_id]) IN
            /\ Commit(job)
            /\ _broadcast_update(job, "job_update")
            /\ Returned("start_job", job)

update_progress(job_id, progress, message) ==
    \/ NotFound("update_progress", job_id)
    \/ /\ job_id \in DOMAIN jobs
       /\ LET job == update_progress_fields(jobs[job_id], progress, message) IN
            /\ Commit(job)
            /\ _broadcast_update(job, "job_update")
            /\ Returned("update_progress", job)

add_log(job_id, message, level) ==
    \/ NotFound("add_log", job_id)
    \/ /\ job_id \in DOMAIN jobs
       /\ LET job == _add_log(jobs[job_id], message, level) IN
            /\ Commit(job)
            /\ UNCHANGED <<queues, published>>
            /\ Returned("add_log", job)

complete_job(job_id, result) ==
    \/ NotFound("complete_job", job_id)
    \/ /\ job_id \in DOMAIN jobs
       /\ LET job == complete_job_fields(jobs[job_id], result) IN
            /\ Commit(job)
            /\ _broadcast_update(job, "completed")
            /\ Returned("complete_job", job)

fail_job(job_id, error) ==
    \/ NotFound("fail_job", job_id)
    \/ /\ job_id \in DOMAIN jobs
       /\ LET job == fail_job_fields(jobs[job_id], error) IN
            /\ Commit(job)
            /\ _broadcast_update(job, "failed")
            /\ Returned("fail_job", job)

cancel_job(job_id) ==
    \/ NotFound("cancel_job", job_id)
    \/ /\ job_id \in DOMAIN jobs
       /\ jobs[job_id].status \notin {"queued", "running"}
       /\ Returned("cancel_job", jobs[job_id])
       /\ now' = now + 1
       /\ UNCHANGED <<jobs, queues, published>>
    \/ /\ job_id \in DOMAIN jobs
       /\ jobs[job_id].status \in {"queued", "running"}
       /\ LET job == cancel_job_fields(jobs[job_id]) IN
            /\ Commit(job)
            /\ _broadcast_update(job, "cancelled")
            /\ Returned("cancel_job", job)

---------------------------------------------------------------------------
(* The job tracker driven by an arbitrary caller *)

NoCall == [op |-> "none", id |-> "none", ret |-> <<>>]

InitJobs ==
    /\ jobs = <<>>
    /\ now = 0
    /\ channels = <<>>
    /\ queues = <<>>
    /\ published = <<>>
    /\ call = NoCall
    /\ streams = <<>>
    /\ version = <<>>
    /\ project = <<>>
    /\ storage = <<>>
    /\ run = <<>>

\* what no Job Tracker operation touches
Frame == UNCHANGED <<channels, streams, version, project, storage, run>>

CreateJob ==
    \E job_id \in JobIds, metadata \in Metadata :
        now < MaxOps /\ create_job(job_id, "publish", metadata) /\ Frame

StartJob ==
    \E job_id \in JobIds : now < MaxOps /\ start_job(job_id) /\ Frame

UpdateProgress ==
    \E job_id \in JobIds, p \in Percents, m \in ProgressMessages :
        now < MaxOps /\ update_progress(job_id, p, m) /\ Frame

AddLog ==
    \E job_id \in JobIds, m \in LogMessages, l \in LogLevels :
        now < MaxOps /\ add_log(job_id, m, l) /\ Frame

CompleteJob ==
    \E job_id \in JobIds, r \in ResultPatches :
        now < MaxOps /\ complete_job(job_id, r) /\ Frame

FailJob ==
    \E job_id \in JobIds, e \in Errors :
        now < MaxOps /\ fail_job(job_id, e) /\ Frame

CancelJob ==
    \E job_id \in JobIds : now < MaxOps /\ cancel_job(job_id) /\ Frame

NextJobs ==
    \/ CreateJob
    \/ StartJob
    \/ UpdateProgress
    \/ AddLog
    \/ CompleteJob
    \/ FailJob
    \/ CancelJob

SpecJobs == InitJobs /\ [][NextJobs]_vars

---------------------------------------------------------------------------
(* The broadcaster with streams and an arbitrary publisher *)

\* number of messages broadcast in SpecSSE
MaxMessages == 3
Streams == {"s1", "s2"}
Channels == {"job:j1", "job:j2"}
Events == {"job_update", "completed", "failed", "cancelled"}
InitialMessages ==
    {<<>>, <<SSEMessage([status |-> "running"], "job_update", <<"0">>)>>}

\* all messages broadcast so far
Broadcasts ==
    LET RECURSIVE Sum(_)
        Sum(S) == IF S = {} THEN 0
                  ELSE LET c == CHOOSE x \in S : TRUE
                       IN Len(published[c]) + Sum(S \ {c})
    IN Sum(DOMAIN published)

InitSSE ==
    /\ jobs = <<>>
    /\ now = 0
    /\ channels = <<>>
    /\ queues = <<>>
    /\ published = <<>>
    /\ call = NoCall
    /\ streams = <<>>
    /\ version = <<>>
    /\ project = <<>>
    /\ storage = <<>>
    /\ run = <<>>

SSEFrame == UNCHANGED <<jobs, now, call, version, project, storage, run>>

Broadcast ==
    \E channel \in Channels, event \in Events :
        /\ Broadcasts < MaxMessages
        /\ broadcast(channel,
                     SSEMessage([seq |-> Broadcasts + 1], event,
                                <<ToString(Broadcasts + 1)>>))
        /\ UNCHANGED <<channels, streams>>
        /\ SSEFrame

StreamCall ==
    \E s \in Streams, channel \in Channels, initial \in InitialMessages :
        stream_call(s, channel, initial) /\ SSEFrame

StreamFirst == \E s \in Streams : stream_first(s) /\ SSEFrame

StreamClose == \E s \in Streams : stream_close(s) /\ SSEFrame

NextSSE ==
    \/ Broadcast
    \/ StreamCall
    \/ StreamFirst
    \/ StreamClose

SpecSSE == InitSSE /\ [][NextSSE]_vars

---------------------------------------------------------------------------
(* SSEMessage.encode applied to the messages the service builds *)

\* the messages built in the service: _broadcast_update and the job stream
\* endpoint pass the job dict, an event and an id (the progress as a string,
\* or "0"); stream builds the ping without an id; none passes retry, and the
\* event defaults to "message"
EncodeIds == {<<>>, <<"0">>, <<"40">>, <<"100">>}
EncodeEvents ==
    {"message", "job_update", "completed", "failed", "cancelled", "ping"}
EncodePayloads ==
    {<<>>, [status |-> "running"], [status |-> "completed", progress |-> 100]}
EncodeMessages ==
    {SSEMessage(data, event, id) :
        data \in EncodePayloads, event \in EncodeEvents, id \in EncodeIds}

InitEncode ==
    /\ jobs = <<>>
    /\ now = 0
    /\ channels = <<>>
    /\ queues = <<>>
    /\ published = <<>>
    /\ streams = <<>>
    /\ version = <<>>
    /\ project = <<>>
    /\ storage = <<>>
    /\ run = <<>>
    /\ \E m \in EncodeMessages :
         call = [op |-> "SSEMessage", id |-> "none", ret |-> <<m>>]

\* message.encode() is called on the message built
Encode ==
    /\ call.op = "SSEMessage"
    /\ call' = [op |-> "encode", id |-> "none",
                ret |-> <<call.ret[1], encode(call.ret[1])>>]
    /\ UNCHANGED <<jobs, now, channels, queues, published, streams, version,
                   project, storage, run>>

NextEncode == Encode

SpecEncode == InitEncode /\ [][NextEncode]_vars

---------------------------------------------------------------------------
(* Job stream endpoint: app/features/jobs/routes.py *)

\* a terminal check that misses the cancelled status
already_terminal_no_cancelled(job) == job.status \in {"completed", "failed"}

\* the check of line 76
already_terminal(job) == job.status \in {"completed", "failed", "cancelled"}

\* a response that is not SSEManager.stream: the 404, or single_response
Response(pc, initial, exc) ==
    [pc |-> pc, channel |-> None, sub |-> 0, initial |-> initial, from |-> 0,
     out |-> <<>>, exc |-> exc]

\* stream_job(job_id): 404 for a missing job, single_response for a job that
\* is terminal, SSEManager.stream on the channel of the job otherwise
stream_job(s, job_id) ==
    IF job_id \notin DOMAIN jobs
    THEN /\ s \notin DOMAIN streams
         /\ streams' = [k \in (DOMAIN streams) \cup {s} |->
                          IF k = s
                          THEN Response("http_404", <<>>, "HTTPException")
                          ELSE streams[k]]
         /\ UNCHANGED <<channels, queues, published>>
    ELSE LET job == jobs[job_id]
             initial == SSEMessage(to_dict(job), "job_update", <<"0">>)
         IN IF already_terminal(job)
            THEN /\ s \notin DOMAIN streams
                 /\ streams' = [k \in (DOMAIN streams) \cup {s} |->
                                  IF k = s
                                  THEN Response("single_created", <<initial>>,
                                                None)
                                  ELSE streams[k]]
                 /\ UNCHANGED <<channels, queues, published>>
            ELSE stream_call(s, get_channel(job_id), <<initial>>)

\* single_response, first iteration: yield initial.encode()
single_response_yield(s) ==
    /\ s \in DOMAIN streams
    /\ streams[s].pc = "single_created"
    /\ streams' = [streams EXCEPT
                     ![s].out = Append(@, encode(streams[s].initial[1])),
                     ![s].pc = "single_yielded"]
    /\ UNCHANGED <<channels, queues, published>>

\* single_response, second iteration: the generator returns
single_response_end(s) ==
    /\ s \in DOMAIN streams
    /\ streams[s].pc = "single_yielded"
    /\ streams' = [streams EXCEPT ![s].pc = "done"]
    /\ UNCHANGED <<channels, queues, published>>

\* the rows of a job the tracker can have written before the request
RoutedJobs ==
    LET queued == new_job("j1", "publish", <<>>)
        running == start_job_fields(queued)
    IN {queued, running, cancel_job_fields(queued),
        cancel_job_fields(running), fail_job_fields(running, "boom"),
        complete_job_fields(running, <<>>),
        complete_job_fields(running, <<[release_id |-> "rel_1"]>>)}

\* a jobs table with one job, and a process that has broadcast nothing yet
InitStreamJob ==
    /\ now = 0
    /\ \E job \in RoutedJobs : jobs = [j \in {"j1"} |-> job]
    /\ channels = <<>>
    /\ queues = <<>>
    /\ published = <<>>
    /\ call = NoCall
    /\ streams = <<>>
    /\ version = <<>>
    /\ project = <<>>
    /\ storage = <<>>
    /\ run = <<>>

StreamJob ==
    \E s \in Streams, job_id \in JobIds : stream_job(s, job_id) /\ SSEFrame

SingleResponseYield ==
    \E s \in Streams : single_response_yield(s) /\ SSEFrame

SingleResponseEnd == \E s \in Streams : single_response_end(s) /\ SSEFrame

NextStreamJob ==
    \/ StreamJob
    \/ SingleResponseYield
    \/ SingleResponseEnd
    \/ StreamFirst
    \/ StreamClose
    \/ CancelJob

SpecStreamJob == InitStreamJob /\ [][NextStreamJob]_vars

---------------------------------------------------------------------------
(* Release service: app/services/release_service.py *)

\* ReleaseService.get_version: the (project, version) pair, or None
get_version ==
    IF project = <<>> \/ version = <<>> THEN <<>>
    ELSE <<[project |-> project[1], version |-> version[1]]>>

\* completed build jobs of the version, as the queries of validate_for_publish
\* and run_publish_job select them
CompletedBuilds ==
    {j \in DOMAIN jobs :
        jobs[j].job_type = "build" /\ jobs[j].status = "completed"}

\* ReleaseService.validate_for_publish (the project has no ProjectConfig row)
validate_for_publish ==
    IF get_version = <<>>
    THEN [is_valid |-> FALSE, errors |-> <<"Project or version not found">>,
          warnings |-> <<>>]
    ELSE LET errors == IF version[1].status # "draft"
                       THEN <<"Only draft versions can be published">>
                       ELSE <<>>
             warnings ==
                <<"No configuration defined, will use defaults">>
                \o (IF project[1].overlays = {}
                    THEN <<"No overlays defined">> ELSE <<>>)
                \o (IF CompletedBuilds = {}
                    THEN <<"No build found - consider running build first to generate tiles">>
                    ELSE <<>>)
         IN [is_valid |-> errors = <<>>, errors |-> errors,
             warnings |-> warnings]

\* the refs of the overlays modelled, in ascending order
SortedRefs == <<"a", "a1", "u1", "u2", "u3", "u4", "u5">>
RefRank(ref) == CHOOSE i \in DOMAIN SortedRefs : SortedRefs[i] = ref

\* order_by(Overlay.sort_order, Overlay.ref) of build_manifest
OverlayBefore(a, b) ==
    \/ a.sort_order < b.sort_order
    \/ a.sort_order = b.sort_order /\ RefRank(a.ref) < RefRank(b.ref)

\* one of the orders the overlay query of build_manifest can return the rows
\* in
OrderBySortOrder(S) == CHOOSE q \in OrderedBy(S, OverlayBefore) : TRUE

\* a filter that keeps the zones of a level in its manifest
filter_overlays_keeping_zones(all_overlays, level) ==
    SelectSeq(all_overlays,
              LAMBDA o : IF level = "project"
                         THEN o.overlay_type = "zone"
                         ELSE o.source_level = level)

\* lines 209-214: the overlays build_manifest keeps for a level, in the
\* order of the rows
filter_overlays(all_overlays, level) ==
    SelectSeq(all_overlays,
              LAMBDA o : IF level = "project"
                         THEN o.overlay_type = "zone"
                         ELSE o.source_level = level
                              /\ o.overlay_type # "zone")

\* the overlays build_manifest keeps for a level
filtered_overlays(level) ==
    filter_overlays(OrderBySortOrder(project[1].overlays), level)

\* the ReleaseOverlay built from an overlay row
ReleaseOverlay(o) ==
    [ref |-> o.ref, overlay_type |-> o.overlay_type, label |-> o.label,
     layer |-> o.source_level, sort_order |-> o.sort_order]

\* the release_overlays of build_manifest
release_overlays(level) ==
    [i \in DOMAIN filtered_overlays(level) |->
        ReleaseOverlay(filtered_overlays(level)[i])]

\* ReleaseService._calculate_checksum: json.dumps(data, sort_keys=True) writes
\* the items of the list in the order of the list and the keys of each item in
\* sorted order; the digest is taken as one-to-one on the text
_calculate_checksum(data) == "sha256:" \o ToString(data)

\* lines 200-266: the manifest build_manifest makes of the rows its overlay
\* query returned
ReleaseManifest(all_overlays, release_id, tiles_metadata, level) ==
    LET kept == filter_overlays(all_overlays, level)
        overlays == [i \in DOMAIN kept |-> ReleaseOverlay(kept[i])]
    IN [version |-> 3, release_id |-> release_id, level |-> level,
        tiles |-> tiles_metadata, overlays |-> overlays, zones |-> <<>>,
        checksum |-> _calculate_checksum(overlays)]

\* ReleaseService.build_manifest: the manifest, or None
build_manifest(release_id, tiles_metadata, level) ==
    IF get_version = <<>> THEN <<>>
    ELSE <<ReleaseManifest(OrderBySortOrder(project[1].overlays), release_id,
                           tiles_metadata, level)>>

\* a zone discovery that takes the level tags of all overlays
zone_levels_of_all_overlays(overlays) ==
    {o.source_level : o \in
        {q \in overlays : q.source_level # None /\ q.source_level # ""}}

\* lines 287-297: the levels get_zone_levels finds among the overlays of a
\* project: the distinct source_level of the overlays that are no zone,
\* without NULL, "project" and the empty string
zone_levels(overlays) ==
    {o.source_level : o \in
        {q \in overlays :
            /\ q.overlay_type # "zone"
            /\ q.source_level # None
            /\ q.source_level # "project"
            /\ q.source_level # ""}}

\* ReleaseService.get_zone_levels: the distinct levels of non-zone overlays
get_zone_levels ==
    IF project = <<>> THEN {} ELSE zone_levels(project[1].overlays)

\* ReleaseService.mark_version_published: the version row afterwards.
\* ProjectVersion has no release_id and no release_url column, so the two
\* assignments to them set attributes of the object that the commit does not
\* store; the row holds status, published_at and published_by.
mark_version_published(release_id, release_url, user_id) ==
    IF version # <<>>
    THEN <<[version[1] EXCEPT !.status = "published",
                              !.published_at = now,
                              !.published_by = user_id]>>
    ELSE version

\* ReleaseService.update_project_current_release: the project row afterwards
update_project_current_release(release_id) ==
    IF project # <<>>
    THEN <<[project[1] EXCEPT !.current_release_id = release_id]>>
    ELSE project

---------------------------------------------------------------------------
(* Publish orchestrator: app/jobs/publish_job.py *)

Runs == {"r1"}
Slug == "p"
UserId == "u1"
TileNames == {"0/0_0.webp", "1/0_0.webp"}

\* the tiles of a build with more objects than a listing call returns
LargeTileNames == TileNames \cup {"1/1_0.webp"}

\* the order in which the storage lists the keys
KeyRank == [n \in LargeTileNames |->
              IF n = "0/0_0.webp" THEN 1 ELSE IF n = "1/0_0.webp" THEN 2 ELSE 3]

\* the default of the parameter max_keys of list_files, 1000 in the code
max_keys == 2

\* R2StorageAdapter.list_files(prefix), as the names below the prefix: one
\* call of list_objects_v2 with MaxKeys=max_keys, whose answer holds the
\* first max_keys keys; the call is not repeated
list_files(prefix) ==
    LET found == {n \in LargeTileNames : (prefix \o n) \in DOMAIN storage}
    IN {n \in found :
          Cardinality({m \in found : KeyRank[m] < KeyRank[n]}) < max_keys}

\* R2StorageAdapter.upload_file: the store afterwards
upload_file(key, body) ==
    [k \in (DOMAIN storage) \cup {key} |->
        IF k = key THEN body ELSE storage[k]]

\* copy_tiles_parallel_threaded: every tile of tiles_list is attempted, the
\* copies of the tiles in ok succeed, the others raise in copy_one
copy_tiles_parallel_threaded(ok, src_prefix, dest_prefix) ==
    [k \in (DOMAIN storage) \cup {dest_prefix \o n : n \in ok} |->
        IF \E n \in ok : k = dest_prefix \o n
        THEN storage[src_prefix \o (CHOOSE n \in ok : k = dest_prefix \o n)]
        ELSE storage[k]]

release_path(release_id) == "mp/" \o Slug \o "/releases/" \o release_id
manifest_key(release_id) == release_path(release_id) \o "/release.json"
zone_manifest_key(release_id, zone_level) ==
    release_path(release_id) \o "/zones/" \o zone_level \o ".json"
staging_tiles_prefix == "mp/" \o Slug \o "/uploads/tiles/"

\* the prefix the tiles are copied from
src_tiles_prefix(loc) ==
    IF loc.build_path # None THEN loc.build_path \o "/tiles/"
    ELSE staging_tiles_prefix

\* the locals of a run before it starts; attempts and raises are the history
\* of the last tile copy: the calls of copy_one per tile and the tiles whose
\* copy raised
NewRun(job_id) ==
    [pc |-> "start", job_id |-> job_id, errors |-> <<>>, warnings |-> <<>>,
     build_id |-> None, build_path |-> None, build_job |-> <<>>,
     release_id |-> None, tiles_list |-> {}, total_copied |-> 0,
     manifest |-> <<>>, zone_levels |-> <<>>, zone_idx |-> 0,
     zone_manifest |-> <<>>, zone_info_list |-> <<>>,
     zone_manifests_uploaded |-> 0, release_url |-> None, exc |-> None,
     attempts |-> <<>>, raises |-> {}]

\* the update_progress calls of run_publish_job: percent, message, next step
ProgressAt ==
    [p5  |-> [percent |-> 5,  message |-> "Validating version...",
              next |-> "validate"],
     p8  |-> [percent |-> 8,  message |-> "Finding build artifacts...",
              next |-> "get_version"],
     p10 |-> [percent |-> 10, message |-> "Generating release ID...",
              next |-> "generate_release_id"],
     p20 |-> [percent |-> 20, message |-> "Copying tiles to release folder...",
              next |-> "list_tiles"],
     p60 |-> [percent |-> 60, message |-> "Generating release manifests...",
              next |-> "build_manifest"],
     p70 |-> [percent |-> 70, message |-> "Uploading project manifest...",
              next |-> "upload_manifest"],
     p75 |-> [percent |-> 75, message |-> "Generating zone manifests...",
              next |-> "log_zones"],
     p85 |-> [percent |-> 85, message |-> "Finalizing manifests...",
              next |-> "get_public_url"],
     p90 |-> [percent |-> 90, message |-> "Updating database...",
              next |-> "mark_version_published"],
     p95 |-> [percent |-> 95, message |-> "Finalizing...",
              next |-> "complete"]]

\* where the run goes after the zone at zone_idx
\* a loop end that never patches the project manifest
AfterZone_without_reupload(loc) ==
    IF loc.zone_idx < Len(loc.zone_levels) THEN "zone_build" ELSE "p85"

AfterZone(loc) ==
    IF loc.zone_idx < Len(loc.zone_levels) THEN "zone_build"
    ELSE IF loc.zone_info_list # <<>> THEN "reupload"
    ELSE "p85"

\* the add_log calls of run_publish_job: message, level, next step
LogAt(loc) ==
    [warn |->
        [message |-> "Warning: " \o (IF loc.warnings # <<>>
                                      THEN Head(loc.warnings) ELSE ""),
         level |-> "warn",
         next |-> IF Len(loc.warnings) > 1 THEN "warn" ELSE "p8"],
     log_build |->
        [message |-> "Using latest build: " \o loc.build_id,
         level |-> "info", next |-> "p10"],
     log_no_build |->
        [message |-> "No build found, will check staging area",
         level |-> "warn", next |-> "p10"],
     log_release_id |->
        [message |-> "Release ID: " \o loc.release_id, level |-> "info",
         next |-> "p20"],
     log_no_tiles |->
        [message |-> IF loc.build_path # None THEN "No tiles in build"
                     ELSE "No tiles in staging",
         level |-> "warn", next |-> "p60"],
     log_copying |->
        [message |-> "Copying " \o ToString(Cardinality(loc.tiles_list))
                     \o " tiles...",
         level |-> "info", next |-> "copy_tiles"],
     log_copied |->
        [message |-> "Copied " \o ToString(loc.total_copied) \o " tiles",
         level |-> "info", next |-> "p60"],
     log_copy_warning |->
        [message |-> "Tile copy warning: " \o loc.exc, level |-> "warn",
         next |-> "p60"],
     log_uploaded |->
        [message |-> "Uploaded project manifest", level |-> "info",
         next |-> "get_zone_levels"],
     log_zones |->
        [message |-> "Found " \o ToString(Len(loc.zone_levels))
                     \o " zones with content",
         level |-> "info", next |-> "zone_build"],
     zone_log |->
        [message |-> "Uploaded zone manifest", level |-> "info",
         next |-> AfterZone(loc)],
     log_reupload |->
        [message |-> "Updated project manifest with zone references",
         level |-> "info", next |-> "p85"],
     log_url |->
        [message |-> "Release URL: " \o loc.release_url, level |-> "info",
         next |-> "p90"]]

\* the steps that call add_log
LogSteps ==
    {"warn", "log_build", "log_no_build", "log_release_id", "log_no_tiles",
     "log_copying", "log_copied", "log_copy_warning", "log_uploaded",
     "log_zones", "zone_log", "log_reupload", "log_url"}

\* the steps that call fail_job and return
FailSteps == {"fail_validation", "fail_not_found", "fail_manifest"}

\* the fail_job calls that end the run with an early return
FailAt(loc) ==
    [fail_validation |-> "Validation failed: "
                         \o (IF loc.errors # <<>> THEN Head(loc.errors)
                             ELSE ""),
     fail_not_found  |-> "Project or version not found",
     fail_manifest   |-> "Failed to build release manifest"]

\* steps inside the inner try block of the tile copy (lines 148-218)
InnerTry ==
    {"list_tiles", "log_no_tiles", "log_copying", "copy_tiles", "log_copied"}

\* steps that call R2StorageAdapter.upload_file
UploadSteps == {"upload_manifest", "zone_upload", "reupload"}

\* steps of the outer try block at which a call can raise
TryBlock ==
    {"start", "validate", "get_version", "find_build", "build_manifest",
     "get_zone_levels", "zone_build", "mark_version_published",
     "update_project_current_release", "complete",
     "fail_validation", "fail_not_found", "fail_manifest"}
    \cup InnerTry \cup UploadSteps
    \cup DOMAIN ProgressAt \cup LogSteps

\* the message of the exception a step raises
exception(pc) ==
    IF pc \in UploadSteps THEN "Upload failed"
    ELSE IF pc \in {"list_tiles", "copy_tiles"} THEN "Storage error"
    ELSE "Database error"

\* an inner try block that also covers the upload of the zone manifests
handler_swallowing_upload(pc) ==
    IF pc \in InnerTry THEN "log_copy_warning"
    ELSE IF pc = "zone_upload" THEN "zone_log"
    ELSE "except"

\* the handler an exception raised at a step reaches: the inner except of the
\* tile copy (line 219) or the outer except (line 369)
handler(pc) == IF pc \in InnerTry THEN "log_copy_warning" ELSE "except"

Set(r, loc) == run' = [run EXCEPT ![r] = loc]
At(r, pcs) == r \in DOMAIN run /\ run[r].pc \in pcs
JobFrame == UNCHANGED <<jobs, now, queues, published, call>>
DbFrame == UNCHANGED <<version, project>>
RunFrame == UNCHANGED <<channels, streams>>

\* line 64
PublishStart(r) ==
    /\ At(r, {"start"})
    /\ start_job(run[r].job_id)
    /\ Set(r, [run[r] EXCEPT !.pc = "p5"])
    /\ UNCHANGED storage /\ DbFrame /\ RunFrame

\* lines 65, 80, 136, 145, 222, 244, 266, 329, 335, 351
PublishProgress(r) ==
    /\ At(r, DOMAIN ProgressAt)
    /\ LET step == ProgressAt[run[r].pc] IN
         /\ update_progress(run[r].job_id, step.percent, step.message)
         /\ Set(r, [run[r] EXCEPT !.pc = step.next])
    /\ UNCHANGED storage /\ DbFrame /\ RunFrame

\* lines 78, 127, 129, 142, 198-217, 220, 256, 267, 312, 327, 334
PublishLog(r) ==
    /\ At(r, LogSteps)
    /\ LET loc == run[r]
           step == LogAt(loc)[loc.pc]
       IN
         /\ add_log(loc.job_id, step.message, step.level)
         /\ Set(r, [loc EXCEPT !.pc = step.next,
                               !.warnings = IF loc.pc = "warn"
                                            THEN Tail(@) ELSE @,
                               !.zone_idx = IF loc.pc = "zone_log"
                                            THEN @ + 1 ELSE @])
    /\ UNCHANGED storage /\ DbFrame /\ RunFrame

\* lines 68-78
PublishValidate(r) ==
    /\ At(r, {"validate"})
    /\ LET v == validate_for_publish IN
         Set(r, [run[r] EXCEPT
                   !.errors = v.errors, !.warnings = v.warnings,
                   !.pc = IF ~v.is_valid THEN "fail_validation"
                          ELSE IF v.warnings # <<>> THEN "warn"
                          ELSE "p8"])
    /\ UNCHANGED storage /\ JobFrame /\ DbFrame /\ RunFrame

\* lines 73-74, 85-86, 241-242: fail_job, then return
PublishFail(r) ==
    /\ At(r, FailSteps)
    /\ fail_job(run[r].job_id, FailAt(run[r])[run[r].pc])
    /\ Set(r, [run[r] EXCEPT !.pc = "returned"])
    /\ UNCHANGED storage /\ DbFrame /\ RunFrame

\* lines 83-88
PublishGetVersion(r) ==
    /\ At(r, {"get_version"})
    /\ Set(r, [run[r] EXCEPT !.pc = IF get_version = <<>>
                                    THEN "fail_not_found"
                                    ELSE "find_build"])
    /\ UNCHANGED storage /\ JobFrame /\ DbFrame /\ RunFrame

\* lines 112-134: the latest completed build job of the version
PublishFindBuild(r) ==
    /\ At(r, {"find_build"})
    /\ IF CompletedBuilds # {}
       THEN LET b == CHOOSE j \in CompletedBuilds :
                       \A k \in CompletedBuilds :
                          jobs[k].completed_at <= jobs[j].completed_at
            IN IF Truthy(jobs[b].result)
               THEN Set(r, [run[r] EXCEPT
                              !.build_job = <<jobs[b]>>,
                              !.build_id = jobs[b].result[1].build_id,
                              !.build_path = jobs[b].result[1].build_path,
                              !.pc = "log_build"])
               ELSE Set(r, [run[r] EXCEPT !.build_job = <<jobs[b]>>,
                                          !.pc = "log_no_build"])
       ELSE Set(r, [run[r] EXCEPT !.pc = "log_no_build"])
    /\ UNCHANGED storage /\ JobFrame /\ DbFrame /\ RunFrame

\* generate_release_id (a fresh id per run) and get_public_url
generate_release_id(r) == "rel_" \o r
get_public_url(key) == "https://cdn/" \o key

\* lines 139-140, 332: local computations between two awaited calls
PublishLocal(r) ==
    /\ At(r, {"generate_release_id", "get_public_url"})
    /\ IF run[r].pc = "generate_release_id"
       THEN Set(r, [run[r] EXCEPT !.release_id = generate_release_id(r),
                                  !.pc = "log_release_id"])
       ELSE Set(r, [run[r] EXCEPT
                      !.release_url =
                          get_public_url(manifest_key(run[r].release_id)),
                      !.pc = "log_url"])
    /\ UNCHANGED storage /\ JobFrame /\ DbFrame /\ RunFrame

\* lines 193-197, 205-210
PublishListTiles(r) ==
    /\ At(r, {"list_tiles"})
    /\ LET tiles == list_files(src_tiles_prefix(run[r])) IN
         Set(r, [run[r] EXCEPT !.tiles_list = tiles,
                               !.pc = IF tiles = {} THEN "log_no_tiles"
                                      ELSE "log_copying"])
    /\ UNCHANGED storage /\ JobFrame /\ DbFrame /\ RunFrame

\* a pool that counts every future, whether its copy raised or not
thread_pool_counting_all(tiles_list, raises) ==
    [attempts |-> [t \in tiles_list |-> 1], ok |-> tiles_list \ raises,
     copied_count |-> Cardinality(tiles_list)]

\* lines 177-189: the pool of copy_tiles_parallel_threaded. One future is
\* submitted per tile of tiles_list and runs copy_one once; the with block
\* ends when all of them are done; copied_count counts the calls of copy_one
\* that returned, the exception of the others is printed
thread_pool(tiles_list, raises) ==
    [attempts |-> [t \in tiles_list |-> 1], ok |-> tiles_list \ raises,
     copied_count |-> Cardinality(tiles_list \ raises)]

\* lines 150-190, 201, 214: the thread pool runs to the end inside the call
PublishCopyTiles(r) ==
    /\ At(r, {"copy_tiles"})
    /\ \E raises \in SUBSET run[r].tiles_list :
         LET pool == thread_pool(run[r].tiles_list, raises) IN
         /\ storage' = copy_tiles_parallel_threaded(
                          pool.ok, src_tiles_prefix(run[r]),
                          release_path(run[r].release_id) \o "/tiles/")
         /\ Set(r, [run[r] EXCEPT !.total_copied = pool.copied_count,
                                  !.attempts = pool.attempts,
                                  !.raises = raises,
                                  !.pc = "log_copied"])
    /\ JobFrame /\ DbFrame /\ RunFrame

\* all_tiles_metadata.get(level) of lines 224-230, 271
tiles_metadata(loc, level) ==
    IF loc.build_job # <<>> /\ Truthy(loc.build_job[1].result)
       /\ level \in DOMAIN loc.build_job[1].result[1].tiles.metadata
    THEN <<loc.build_job[1].result[1].tiles.metadata[level]>>
    ELSE <<>>

\* lines 231-242
PublishBuildManifest(r) ==
    /\ At(r, {"build_manifest"})
    /\ LET m == build_manifest(run[r].release_id,
                               tiles_metadata(run[r], "project"), "project")
       IN Set(r, [run[r] EXCEPT !.manifest = m,
                                !.pc = IF m = <<>> THEN "fail_manifest"
                                       ELSE "p70"])
    /\ UNCHANGED storage /\ JobFrame /\ DbFrame /\ RunFrame

\* lines 247-254
PublishUploadManifest(r) ==
    /\ At(r, {"upload_manifest"})
    /\ storage' = upload_file(manifest_key(run[r].release_id),
                              run[r].manifest[1])
    /\ Set(r, [run[r] EXCEPT !.pc = "log_uploaded"])
    /\ JobFrame /\ DbFrame /\ RunFrame

\* lines 259-265
PublishGetZoneLevels(r) ==
    /\ At(r, {"get_zone_levels"})
    /\ \E levels \in Orders(get_zone_levels) :
         Set(r, [run[r] EXCEPT !.zone_levels = levels,
                               !.zone_idx = 1,
                               !.zone_manifests_uploaded = 0,
                               !.zone_info_list = <<>>,
                               !.pc = IF levels # <<>> THEN "p75"
                                      ELSE "p85"])
    /\ UNCHANGED storage /\ JobFrame /\ DbFrame /\ RunFrame

\* lines 269-282
PublishZoneBuild(r) ==
    /\ At(r, {"zone_build"})
    /\ LET loc == run[r]
           zone_level == loc.zone_levels[loc.zone_idx]
           m == build_manifest(loc.release_id,
                               tiles_metadata(loc, zone_level), zone_level)
       IN IF m # <<>> /\ m[1].overlays # <<>>
          THEN Set(r, [loc EXCEPT !.zone_manifest = m, !.pc = "zone_upload"])
          ELSE Set(r, [loc EXCEPT !.zone_idx = @ + 1, !.pc = AfterZone(loc)])
    /\ UNCHANGED storage /\ JobFrame /\ DbFrame /\ RunFrame

LevelPrefixes == {"zone"}

\* lines 293-309: the zone overlay of the project manifest that corresponds
\* to the level, and the reference recorded for it
ZoneManifestInfo(manifest, zone_level) ==
    LET matches(o) ==
            /\ o.overlay_type = "zone"
            /\ \/ o.layer = zone_level
               \/ \E pre \in LevelPrefixes : zone_level = pre \o "-" \o o.ref
               \/ zone_level = o.ref
        found == {i \in DOMAIN manifest.overlays :
                     matches(manifest.overlays[i])}
        first == CHOOSE i \in found : \A k \in found : i <= k
    IN [zone_ref |-> IF found # {} THEN manifest.overlays[first].ref
                     ELSE zone_level,
        level |-> zone_level,
        manifest_path |-> "zones/" \o zone_level \o ".json",
        label |-> IF found # {} THEN manifest.overlays[first].label
                  ELSE None]

\* lines 283-311
PublishZoneUpload(r) ==
    /\ At(r, {"zone_upload"})
    /\ LET loc == run[r]
           zone_level == loc.zone_levels[loc.zone_idx]
       IN
         /\ storage' = upload_file(
                          zone_manifest_key(loc.release_id, zone_level),
                          loc.zone_manifest[1])
         /\ Set(r, [loc EXCEPT
                      !.zone_info_list =
                          Append(@, ZoneManifestInfo(loc.manifest[1],
                                                     zone_level)),
                      !.zone_manifests_uploaded = @ + 1,
                      !.pc = "zone_log"])
    /\ JobFrame /\ DbFrame /\ RunFrame

\* lines 319-326
PublishReupload(r) ==
    /\ At(r, {"reupload"})
    /\ LET m == [run[r].manifest[1] EXCEPT !.zones = run[r].zone_info_list]
       IN
         /\ storage' = upload_file(manifest_key(run[r].release_id), m)
         /\ Set(r, [run[r] EXCEPT !.manifest = <<m>>,
                                  !.pc = "log_reupload"])
    /\ JobFrame /\ DbFrame /\ RunFrame

\* lines 337-343
PublishMarkVersion(r) ==
    /\ At(r, {"mark_version_published"})
    /\ version' = mark_version_published(run[r].release_id,
                                         run[r].release_url, UserId)
    /\ Set(r, [run[r] EXCEPT !.pc = "update_project_current_release"])
    /\ UNCHANGED <<storage, project>> /\ JobFrame /\ RunFrame

\* lines 345-349
PublishUpdateProject(r) ==
    /\ At(r, {"update_project_current_release"})
    /\ project' = update_project_current_release(run[r].release_id)
    /\ Set(r, [run[r] EXCEPT !.pc = "p95"])
    /\ UNCHANGED <<storage, version>> /\ JobFrame /\ RunFrame

\* lines 353-364
job_result(loc) ==
    [release_id |-> loc.release_id, release_url |-> loc.release_url,
     zone_count |-> Len(loc.manifest[1].overlays),
     zone_levels |-> loc.zone_levels,
     zone_manifests_uploaded |-> loc.zone_manifests_uploaded,
     build_id |-> loc.build_id, tiles_copied |-> loc.total_copied,
     published_at |-> now]

\* lines 366-367
PublishComplete(r) ==
    /\ At(r, {"complete"})
    /\ complete_job(run[r].job_id, <<job_result(run[r])>>)
    /\ Set(r, [run[r] EXCEPT !.pc = "returned"])
    /\ UNCHANGED storage /\ DbFrame /\ RunFrame

\* a call of the step raises before it has any effect
PublishRaise(r) ==
    /\ At(r, TryBlock \cup {"log_copy_warning"})
    /\ Set(r, [run[r] EXCEPT !.exc = exception(run[r].pc),
                             !.pc = handler(run[r].pc)])
    /\ UNCHANGED storage /\ JobFrame /\ DbFrame /\ RunFrame

\* lines 369-371: fail_job(job_id, str(e)), then the exception is re-raised
PublishExcept(r) ==
    /\ At(r, {"except"})
    /\ fail_job(run[r].job_id, run[r].exc)
    /\ Set(r, [run[r] EXCEPT !.pc = "raised"])
    /\ UNCHANGED storage /\ DbFrame /\ RunFrame

---------------------------------------------------------------------------
(* One publish run on a project, from the state the publish endpoint leaves *)

ZoneA == [ref |-> "a", overlay_type |-> "zone", source_level |-> "project",
          label |-> "Zone A", sort_order |-> 1]
UnitA == [ref |-> "u1", overlay_type |-> "unit", source_level |-> "zone-a",
          label |-> "Unit 1", sort_order |-> 2]
UnitB == [ref |-> "u2", overlay_type |-> "unit", source_level |-> "zone-b",
          label |-> "Unit 2", sort_order |-> 3]
OverlaySets == {{}, {ZoneA, UnitA}, {ZoneA, UnitA, UnitB}}

DraftVersion ==
    [status |-> "draft", published_at |-> NoTime, published_by |-> None]
PublishedVersion ==
    [status |-> "published", published_at |-> 0, published_by |-> UserId]

\* the project and version rows a publish run can find
Databases ==
    {[project |-> <<>>, version |-> <<>>],
     [project |-> <<None>>, version |-> <<>>],
     [project |-> <<None>>, version |-> <<DraftVersion>>],
     [project |-> <<"rel_0">>, version |-> <<DraftVersion>>],
     [project |-> <<"rel_0">>, version |-> <<PublishedVersion>>]}

BuildPath == "mp/" \o Slug \o "/builds/b1"
BuildJob ==
    [id |-> "b1", job_type |-> "build", status |-> "completed",
     progress |-> 100, message |-> "Job completed",
     result |-> <<[build_id |-> "b1", build_path |-> BuildPath,
                   tiles |-> [metadata |-> [project |-> [levels |-> 2]]]]>>,
     error |-> None, logs |-> <<>>, created_at |-> 0, started_at |-> 0,
     completed_at |-> 0]

\* the tile sources a publish run can find: a build with or without tiles,
\* or no build and a staging area with or without tiles
Sources ==
    {[build |-> FALSE, keys |-> {}],
     [build |-> FALSE, keys |-> {staging_tiles_prefix \o "0/0_0.webp"}],
     [build |-> TRUE, keys |-> {}],
     [build |-> TRUE, keys |-> {BuildPath \o "/tiles/" \o n : n \in TileNames}]}

PublishJob ==
    [id |-> "j1", job_type |-> "publish", status |-> "queued", progress |-> 0,
     message |-> "Job queued",
     result |-> <<[version_number |-> 1,
                   target_environment |-> "production"]>>,
     error |-> None, logs |-> <<>>, created_at |-> 0, started_at |-> NoTime,
     completed_at |-> NoTime]

InitPublishFrom(sources) ==
    /\ now = 1
    /\ channels = <<>>
    /\ queues = <<>>
    /\ call = NoCall
    /\ streams = <<>>
    /\ published = [c \in {get_channel("j1")} |->
                      <<SSEMessage(to_dict(PublishJob), "job_update", <<"0">>)>>]
    /\ \E db \in Databases, overlays \in OverlaySets, src \in sources :
         /\ project = IF db.project = <<>> THEN <<>>
                      ELSE <<[current_release_id |-> db.project[1],
                              overlays |-> overlays]>>
         /\ version = db.version
         /\ storage = [k \in src.keys |-> "tile"]
         /\ jobs = IF src.build
                   THEN [j \in {"j1", "b1"} |->
                           IF j = "j1" THEN PublishJob ELSE BuildJob]
                   ELSE [j \in {"j1"} |-> PublishJob]
    /\ run = [r \in Runs |-> NewRun("j1")]

InitPublish == InitPublishFrom(Sources)

\* a build whose tiles are more than a listing call returns
LargeBuild ==
    [build |-> TRUE, keys |-> {BuildPath \o "/tiles/" \o n : n \in LargeTileNames}]

InitPublishLarge == InitPublishFrom({LargeBuild})

NextPublish ==
    \/ \E r \in Runs : PublishStart(r)
    \/ \E r \in Runs : PublishProgress(r)
    \/ \E r \in Runs : PublishLog(r)
    \/ \E r \in Runs : PublishLocal(r)
    \/ \E r \in Runs : PublishValidate(r)
    \/ \E r \in Runs : PublishFail(r)
    \/ \E r \in Runs : PublishGetVersion(r)
    \/ \E r \in Runs : PublishFindBuild(r)
    \/ \E r \in Runs : PublishListTiles(r)
    \/ \E r \in Runs : PublishCopyTiles(r)
    \/ \E r \in Runs : PublishBuildManifest(r)
    \/ \E r \in Runs : PublishUploadManifest(r)
    \/ \E r \in Runs : PublishGetZoneLevels(r)
    \/ \E r \in Runs : PublishZoneBuild(r)
    \/ \E r \in Runs : PublishZoneUpload(r)
    \/ \E r \in Runs : PublishReupload(r)
    \/ \E r \in Runs : PublishMarkVersion(r)
    \/ \E r \in Runs : PublishUpdateProject(r)
    \/ \E r \in Runs : PublishComplete(r)
    \/ \E r \in Runs : PublishRaise(r)
    \/ \E r \in Runs : PublishExcept(r)

SpecPublish == InitPublish /\ [][NextPublish]_vars

SpecPublishLarge == InitPublishLarge /\ [][NextPublish]_vars

---------------------------------------------------------------------------
(* A publish run whose job the cancel endpoint cancels:
   app/features/jobs/routes.py *)

\* a cancel that stops the run of the job
CancelRoute_interrupting ==
    /\ "j1" \in DOMAIN jobs
    /\ jobs["j1"].status \notin {"completed", "failed", "cancelled"}
    /\ cancel_job("j1")
    /\ run' = [r \in Runs |-> [run[r] EXCEPT !.exc = "CancelledError",
                                             !.pc = "raised"]]
    /\ UNCHANGED storage /\ DbFrame /\ RunFrame

\* routes.py lines 105-132: POST /jobs/{job_id}/cancel on a job that exists
\* and is not terminal (the endpoint answers 404 or 400 otherwise and
\* changes nothing)
CancelRoute ==
    /\ "j1" \in DOMAIN jobs
    /\ jobs["j1"].status \notin {"completed", "failed", "cancelled"}
    /\ cancel_job("j1")
    /\ UNCHANGED <<storage, run>> /\ DbFrame /\ RunFrame

\* the steps of the run other than an exception raised by a call
PublishStep(r) ==
    \/ PublishStart(r)
    \/ PublishProgress(r)
    \/ PublishLog(r)
    \/ PublishLocal(r)
    \/ PublishValidate(r)
    \/ PublishFail(r)
    \/ PublishGetVersion(r)
    \/ PublishFindBuild(r)
    \/ PublishListTiles(r)
    \/ PublishCopyTiles(r)
    \/ PublishBuildManifest(r)
    \/ PublishUploadManifest(r)
    \/ PublishGetZoneLevels(r)
    \/ PublishZoneBuild(r)
    \/ PublishZoneUpload(r)
    \/ PublishReupload(r)
    \/ PublishMarkVersion(r)
    \/ PublishUpdateProject(r)
    \/ PublishComplete(r)
    \/ PublishExcept(r)

NextPublishCancel ==
    \/ \E r \in Runs : PublishStep(r)
    \/ \E r \in Runs : PublishRaise(r)
    \/ CancelRoute

SpecPublishCancel == InitPublish /\ [][NextPublishCancel]_vars

---------------------------------------------------------------------------
(* Two publish requests for the same draft version: publish_version
   (features/publish/routes.py) has accepted both while the version was a
   draft, created a job for each and queued a background task for each; the
   two runs of run_publish_job, each with its own session, are interleaved
   by the event loop. *)

PublishRuns == {"r1", "r2"}

\* the job publish_version creates for a run
JobOfRun(r) == IF r = "r1" THEN "j1" ELSE "j2"

\* the points of a run at which the specification lets the other run take
\* over: before its first step, after its validation, and when it is over.
\* The event loop can switch at every await; the behaviours below are among
\* those it can produce.
SwitchPoints == {"start", "warn", "returned", "raised"}

InitPublishTwice ==
    /\ now = 1
    /\ channels = <<>>
    /\ queues = <<>>
    /\ call = NoCall
    /\ streams = <<>>
    /\ published = [c \in {get_channel(JobOfRun(r)) : r \in PublishRuns} |->
                      <<SSEMessage(to_dict([PublishJob EXCEPT
                                              !.id = IF c = get_channel("j1")
                                                     THEN "j1" ELSE "j2"]),
                                   "job_update", <<"0">>)>>]
    /\ project = <<[current_release_id |-> None,
                    overlays |-> {ZoneA, UnitA}]>>
    /\ version = <<DraftVersion>>
    /\ storage = [k \in {BuildPath \o "/tiles/" \o n : n \in TileNames} |->
                    "tile"]
    /\ jobs = [j \in {"j1", "j2", "b1"} |->
                 IF j = "b1" THEN BuildJob ELSE [PublishJob EXCEPT !.id = j]]
    /\ run = [r \in PublishRuns |-> NewRun(JobOfRun(r))]

\* a step of one of the two runs, the other one being at a switch point
PublishTwiceStep(r) ==
    /\ \A o \in PublishRuns \ {r} : run[o].pc \in SwitchPoints
    /\ PublishStep(r)

\* one of the two database writes of a run raises
PublishTwiceRaise(r) ==
    /\ \A o \in PublishRuns \ {r} : run[o].pc \in SwitchPoints
    /\ At(r, {"mark_version_published", "update_project_current_release"})
    /\ PublishRaise(r)

NextPublishTwice ==
    \/ \E r \in PublishRuns : PublishTwiceStep(r)
    \/ \E r \in PublishRuns : PublishTwiceRaise(r)

SpecPublishTwice == InitPublishTwice /\ [][NextPublishTwice]_vars

---------------------------------------------------------------------------
(* The job tracker call by call and session by session: the orchestrator
   (its own session, features/publish/routes.py line 163) and cancel
   requests (the request session of get_db) work on the same job row. A
   call of JobService is get_job, the assignments on the loaded object,
   db.commit, then db.refresh and the broadcast; each await is a point where
   the other sessions can run. *)

MaxCalls == 2

Sessions == {"orch", "req1", "req2"}

\* the calls the orchestrator makes while it runs
OrchCalls ==
    {[op |-> "add_log", message |-> "Copying 2 tiles from build...",
      level |-> "info", progress |-> 0],
     [op |-> "update_progress", message |-> "Copying tiles to release folder...",
      level |-> None, progress |-> 20]}

CancelCall ==
    [op |-> "cancel_job", message |-> None, level |-> None, progress |-> 0]

NoSessionCall == [op |-> "none", message |-> None, level |-> None, progress |-> 0]

\* the object of the session after the assignments of the call
Assigned(c, job) ==
    IF c.op = "add_log" THEN _add_log(job, c.message, c.level)
    ELSE IF c.op = "update_progress"
    THEN update_progress_fields(job, c.progress, c.message)
    ELSE cancel_job_fields(job)

\* the attributes the call assigns, which the commit writes to the row
AssignedColumns(c) ==
    IF c.op = "add_log" THEN {"logs"}
    ELSE IF c.op = "update_progress" THEN {"progress", "message"}
    ELSE {"status", "message", "completed_at", "logs"}

\* the UPDATE of a commit: the assigned attributes replace those of the row
UpdateRow(row, obj, columns) ==
    [f \in DOMAIN row |-> IF f \in columns THEN obj[f] ELSE row[f]]

\* the event of the broadcast of a call
EventOf(c) == IF c.op = "cancel_job" THEN "cancelled" ELSE "job_update"

NewSession(s) ==
    [pc |-> IF s = "orch" THEN "idle" ELSE "route", call |-> NoSessionCall,
     obj |-> <<>>, written |-> <<>>, calls |-> 0]

\* a job the orchestrator has started
InitSessions ==
    /\ now = 1
    /\ channels = <<>>
    /\ queues = <<>>
    /\ call = NoCall
    /\ streams = <<>>
    /\ published = <<>>
    /\ version = <<>>
    /\ project = <<>>
    /\ storage = <<>>
    /\ jobs = [j \in {"j1"} |-> start_job_fields(new_job("j1", "publish", <<>>))]
    /\ run = [s \in Sessions |-> NewSession(s)]

SessionFrame ==
    UNCHANGED <<channels, streams, version, project, storage>>

\* features/jobs/routes.py lines 116-130: the cancel endpoint reads the job
\* and answers 400 for a terminal one
SessionRoute(s) ==
    /\ At(s, {"route"})
    /\ Set(s, [run[s] EXCEPT
                 !.obj = <<jobs["j1"]>>,
                 !.pc = IF jobs["j1"].status \in Terminal THEN "http_400"
                        ELSE "get_job"])
    /\ UNCHANGED <<jobs, now, queues, published, call>>
    /\ SessionFrame

\* job_service.py lines 124, 145, 204-209: the get_job of a call, and for
\* cancel_job the return of a job that is no longer queued or running
SessionGetJob(s) ==
    /\ At(s, {"idle", "get_job"})
    /\ \E c \in IF s = "orch" THEN OrchCalls ELSE {CancelCall} :
         /\ s = "orch" => run[s].calls < MaxCalls
         /\ Set(s, [run[s] EXCEPT
                      !.call = c,
                      !.obj = <<jobs["j1"]>>,
                      !.pc = IF c.op = "cancel_job"
                                /\ jobs["j1"].status \notin {"queued", "running"}
                             THEN "done" ELSE "loaded"])
    /\ UNCHANGED <<jobs, now, queues, published, call>>
    /\ SessionFrame

\* job_service.py lines 128-132, 148-149, 211-216: the assignments on the
\* loaded object and the commit
SessionCommit(s) ==
    /\ At(s, {"loaded"})
    /\ LET loc == run[s]
           obj == Assigned(loc.call, loc.obj[1])
           columns == AssignedColumns(loc.call)
       IN /\ jobs' = [jobs EXCEPT !["j1"] = UpdateRow(@, obj, columns)]
          /\ Set(s, [loc EXCEPT
                       !.obj = <<obj>>,
                       !.written = IF "logs" \in columns
                                   THEN Append(@, obj.logs[Len(obj.logs)])
                                   ELSE @,
                       !.pc = "committed"])
    /\ now' = now + 1
    /\ UNCHANGED <<queues, published, call>>
    /\ SessionFrame

\* job_service.py lines 133-136, 150-153, 217-220: the refresh of the object,
\* the broadcast (add_log has none) and the return
SessionRefresh(s) ==
    /\ At(s, {"committed"})
    /\ LET loc == run[s]
           job == jobs["j1"]
       IN /\ Set(s, [loc EXCEPT !.obj = <<job>>,
                                !.calls = @ + 1,
                                !.pc = IF s = "orch" THEN "idle" ELSE "done"])
          /\ IF loc.call.op = "add_log"
             THEN UNCHANGED <<queues, published>>
             ELSE _broadcast_update(job, EventOf(loc.call))
          /\ Returned(loc.call.op, job)
    /\ UNCHANGED <<jobs, now>>
    /\ SessionFrame

NextSessions ==
    \/ \E s \in Sessions : SessionRoute(s)
    \/ \E s \in Sessions : SessionGetJob(s)
    \/ \E s \in Sessions : SessionCommit(s)
    \/ \E s \in Sessions : SessionRefresh(s)

SpecSessions == InitSessions /\ [][NextSessions]_vars

---------------------------------------------------------------------------
(* Preview build orchestrator: app/jobs/build_job.py *)

\* base_map assets of a project. Asset.level is nullable and no constraint
\* makes (project, level) unique.
BaseMapA == [id |-> "a1", level |-> "project", width |-> 4096]
BaseMapB == [id |-> "a2", level |-> "zone-a", width |-> 2048]
BaseMapC == [id |-> "a3", level |-> None, width |-> 1024]
AssetSets ==
    {{}, {BaseMapA}, {BaseMapA, BaseMapB}, {BaseMapB, BaseMapC},
     {BaseMapA, BaseMapB, BaseMapC}}

\* order_by(Asset.level), with NULL after every value
LevelBefore(a, b) ==
    \/ a.level = "project" /\ b.level # "project"
    \/ a.level = "zone-a" /\ b.level = None

\* a Python dict as the sequence of its items in insertion order
DictSet(d, key, value) ==
    IF \E i \in DOMAIN d : d[i].key = key
    THEN [i \in DOMAIN d |->
            IF d[i].key = key THEN [key |-> key, value |-> value] ELSE d[i]]
    ELSE Append(d, [key |-> key, value |-> value])
DictKeys(d) == [i \in DOMAIN d |-> d[i].key]
DictItems(d) ==
    [k \in {d[i].key : i \in DOMAIN d} |->
        d[CHOOSE i \in DOMAIN d : d[i].key = k].value]

\* line 113: level = asset.level or "project"
asset_level(asset) ==
    IF asset.level # None /\ asset.level # "" THEN asset.level ELSE "project"

\* what one call of _generate_tiles_for_asset does: it raises in the download,
\* in generate_tiles or in the upload of a tile (after the tiles of uploaded
\* went through), or it uploads every tile and returns
AssetOutcomes ==
    {[stage |-> "ok", uploaded |-> TileNames],
     [stage |-> "download", uploaded |-> {}],
     [stage |-> "tiling", uploaded |-> {}]}
    \cup {[stage |-> "upload", uploaded |-> u] : u \in SUBSET TileNames \ {TileNames}}

\* a tile upload that writes the tiles to the staging folder of the project
_generate_tiles_for_asset_in_staging(asset, build_path, level, outcome) ==
    [storage |->
        [k \in (DOMAIN storage)
               \cup {staging_tiles_prefix \o n : n \in outcome.uploaded}
            |-> IF \E n \in outcome.uploaded : k = staging_tiles_prefix \o n
                THEN "tile" ELSE storage[k]],
     metadata |->
        IF outcome.stage = "ok"
        THEN <<[tiles_path |-> staging_tiles_prefix, width |-> asset.width,
                tile_count |-> Cardinality(outcome.uploaded),
                level |-> level]>>
        ELSE <<>>,
     exc |-> IF outcome.stage = "ok" THEN None ELSE "Upload failed"]

\* _generate_tiles_for_asset (lines 198-272): the store afterwards, the
\* metadata returned (or none) and the exception raised (or None)
_generate_tiles_for_asset(asset, build_path, level, outcome) ==
    LET tiles_path == build_path \o "/tiles/" \o level \o "/" IN
    [storage |->
        [k \in (DOMAIN storage) \cup {tiles_path \o n : n \in outcome.uploaded}
            |-> IF \E n \in outcome.uploaded : k = tiles_path \o n
                THEN "tile" ELSE storage[k]],
     metadata |->
        IF outcome.stage = "ok"
        THEN <<[tiles_path |-> tiles_path, width |-> asset.width,
                tile_count |-> Cardinality(outcome.uploaded),
                level |-> level]>>
        ELSE <<>>,
     exc |-> CASE outcome.stage = "ok" -> None
               [] outcome.stage = "download" -> "Failed to download asset"
               [] outcome.stage = "tiling" -> "cannot identify image file"
               [] outcome.stage = "upload" -> "Upload failed"]

\* the locals of a preview build before it starts; outcomes is the history of
\* the stages at which the assets processed so far ended
NewBuildRun(job_id) ==
    [pc |-> "b_start", job_id |-> job_id, base_maps |-> <<>>, idx |-> 0,
     build_id |-> None, build_path |-> None, all_tiles_metadata |-> <<>>,
     total_tile_count |-> 0, outcomes |-> <<>>, manifest |-> <<>>,
     preview_url |-> None, exc |-> None]

\* a loop that stops at the first asset whose processing raised
AfterAsset_stopping(loc) ==
    IF loc.pc = "b_log_failed" THEN "b_p75"
    ELSE IF loc.idx + 1 < Len(loc.base_maps) THEN "b_asset_progress"
    ELSE "b_p75"

\* where run_build_job goes after the asset at idx
AfterAsset(loc) ==
    IF loc.idx + 1 < Len(loc.base_maps) THEN "b_asset_progress" ELSE "b_p75"

\* the asset the loop of lines 105-137 is at
current_asset(loc) == loc.base_maps[loc.idx + 1]

---------------------------------------------------------------------------
(* Building-view build orchestrator: app/jobs/building_build_job.py *)

\* views of a building: the query of lines 72-79 keeps the active views that
\* have an asset
ViewA == [ref |-> "front", view_type |-> "elevation", sort_order |-> 0,
          is_active |-> TRUE, asset_path |-> "views/front.png",
          tiles_generated |-> FALSE, view_box |-> None]
ViewB == [ref |-> "plan", view_type |-> "floor_plan", sort_order |-> 0,
          is_active |-> TRUE, asset_path |-> "views/plan.png",
          tiles_generated |-> FALSE, view_box |-> None]
ViewC == [ref |-> "back", view_type |-> "elevation", sort_order |-> 1,
          is_active |-> TRUE, asset_path |-> None,
          tiles_generated |-> FALSE, view_box |-> None]
ViewSets == {{}, {ViewC}, {ViewA, ViewC}, {ViewA, ViewB}}

\* order_by(BuildingView.view_type, BuildingView.sort_order)
ViewBefore(a, b) ==
    \/ a.view_type = "elevation" /\ b.view_type = "floor_plan"
    \/ a.view_type = b.view_type /\ a.sort_order < b.sort_order

\* the rows of the view query
selected_views ==
    {v \in project[1].views : v.is_active /\ v.asset_path # None}

\* the locals of a building-view build before it starts. session holds the
\* attributes of the loaded view objects, which every commit of the session
\* writes to their rows; tile_files .. uploaded_count are the locals of the
\* _generate_tiles_for_view call in progress; raises is the set of tiles
\* whose put_object raises; attempts counts the calls of upload_single_tile
\* per tile and outcomes records how the views processed so far ended
NewViewRun(job_id) ==
    [pc |-> "v_start", job_id |-> job_id, building |-> <<>>, views |-> <<>>,
     idx |-> 0, session |-> <<>>, all_tiles_metadata |-> <<>>,
     total_tile_count |-> 0, outcomes |-> <<>>, exc |-> None,
     tile_files |-> {}, raises |-> {}, finished |-> {}, yielded |-> {},
     uploaded_count |-> 0, current |-> 0, attempts |-> <<>>]

\* the view the loop of lines 91-125 is at
current_view(loc) == loc.views[loc.idx + 1]

\* where run_building_build_job goes after the view at idx
AfterView(loc) ==
    IF loc.idx + 1 < Len(loc.views) THEN "v_view_progress" ELSE "v_commit"

\* lines 92 and 108: progress_base and progress_range of the view at idx
view_progress_base(loc) == 10 + ((loc.idx * 80) \div Len(loc.views))
progress_range(loc) == 80 \div Len(loc.views)

\* lines 222-225: the percent reported inside the loop over the futures (the
\* product with 0.8 is exact for the tile counts modelled)
upload_progress(loc) ==
    Min(view_progress_base(loc) + progress_range(loc),
        view_progress_base(loc)
        + ((loc.current * progress_range(loc) * 8)
           \div (Cardinality(loc.tile_files) * 10)))

\* the rows of the views after a commit of the session of the run
Flush(loc) ==
    IF "session" \in DOMAIN loc /\ project # <<>>
    THEN <<[project[1] EXCEPT !.views =
              {IF v.ref \in DOMAIN loc.session
               THEN [v EXCEPT
                       !.view_box = loc.session[v.ref].view_box,
                       !.tiles_generated = loc.session[v.ref].tiles_generated]
               ELSE v : v \in @}]>>
    ELSE project

---------------------------------------------------------------------------
(* Tile generation orchestrator: app/jobs/tile_generation_job.py *)

\* the locals of a tile generation before it starts
NewTileRun(job_id) ==
    [pc |-> "t_start", job_id |-> job_id, tile_files |-> {}, uploaded |-> {},
     tile_count |-> 0, exc |-> None]

---------------------------------------------------------------------------
(* The steps that the preview build, the building-view build and the tile
   generation share: calls of the job tracker, early returns, except clauses.
   A step name starts with b_, v_ or t_ after its orchestrator. *)

\* the update_progress calls of the orchestrators: percent, message, next step
OrchProgressSteps ==
    {"b_p2", "b_p5", "b_p8", "b_asset_progress", "b_p75", "b_p85", "b_p95",
     "v_p5", "v_view_progress", "v_future_progress", "v_p95",
     "t_p5", "t_p10", "t_p80", "t_p95"}
OrchProgressAt(loc) ==
    CASE loc.pc = "b_p2" ->
            [percent |-> 2, message |-> "Validating version...",
             next |-> "b_get_version"]
      [] loc.pc = "b_p5" ->
            [percent |-> 5, message |-> "Finding base map assets...",
             next |-> "b_find_assets"]
      [] loc.pc = "b_p8" ->
            [percent |-> 8, message |-> "Generating build ID...",
             next |-> "b_build_id"]
      [] loc.pc = "b_asset_progress" ->
            [percent |-> 10 + ((loc.idx * 60) \div Len(loc.base_maps)),
             message |-> "Processing base map: "
                         \o asset_level(current_asset(loc)),
             next |-> "b_generate"]
      [] loc.pc = "b_p75" ->
            [percent |-> 75, message |-> "Generating build manifest...",
             next |-> "b_build_manifest"]
      [] loc.pc = "b_p85" ->
            [percent |-> 85, message |-> "Uploading manifest...",
             next |-> "b_upload_manifest"]
      [] loc.pc = "b_p95" ->
            [percent |-> 95, message |-> "Finalizing...",
             next |-> "b_complete"]
      [] loc.pc = "v_p5" ->
            [percent |-> 5, message |-> "Finding building views...",
             next |-> "v_get_building"]
      [] loc.pc = "v_view_progress" ->
            [percent |-> view_progress_base(loc),
             message |-> "Processing view: " \o current_view(loc).ref,
             next |-> "v_generate_tiles"]
      [] loc.pc = "v_future_progress" ->
            [percent |-> upload_progress(loc),
             message |-> "Uploading tiles for " \o current_view(loc).ref
                         \o "... (" \o ToString(loc.current) \o ")",
             next |-> "v_as_completed"]
      [] loc.pc = "v_p95" ->
            [percent |-> 95, message |-> "Finalizing...",
             next |-> "v_complete"]
      [] loc.pc = "t_p5" ->
            [percent |-> 5, message |-> "Downloading source image...",
             next |-> "t_download"]
      [] loc.pc = "t_p10" ->
            [percent |-> 10, message |-> "Generating tiles...",
             next |-> "t_generate_tiles"]
      [] loc.pc = "t_p80" ->
            [percent |-> 80, message |-> "Uploading tiles to storage...",
             next |-> "t_upload"]
      [] loc.pc = "t_p95" ->
            [percent |-> 95, message |-> "Finalizing...",
             next |-> "t_complete"]

\* the add_log calls of the orchestrators: message, level, next step
OrchLogSteps ==
    {"b_log_no_maps", "b_log_build_id", "b_log_found", "b_log_generated",
     "b_log_failed", "b_log_preview",
     "v_log_no_views", "v_log_found", "v_future_log", "v_log_generated",
     "v_log_failed"}
OrchLogAt(loc) ==
    CASE loc.pc = "b_log_no_maps" ->
            [message |-> "No base map assets found, skipping tile generation",
             level |-> "warn", next |-> "b_p8"]
      [] loc.pc = "b_log_build_id" ->
            [message |-> "Build ID: " \o loc.build_id, level |-> "info",
             next |-> IF loc.base_maps # <<>> THEN "b_log_found"
                      ELSE "b_p75"]
      [] loc.pc = "b_log_found" ->
            [message |-> "Found " \o ToString(Len(loc.base_maps))
                         \o " base map(s) to process",
             level |-> "info", next |-> "b_asset_progress"]
      [] loc.pc = "b_log_generated" ->
            [message |-> "Generated tiles for level: "
                         \o asset_level(current_asset(loc)),
             level |-> "info", next |-> AfterAsset(loc)]
      [] loc.pc = "b_log_failed" ->
            [message |-> "Failed to generate tiles for "
                         \o asset_level(current_asset(loc)) \o ": " \o loc.exc,
             level |-> "error", next |-> AfterAsset(loc)]
      [] loc.pc = "b_log_preview" ->
            [message |-> "Preview URL: " \o loc.preview_url, level |-> "info",
             next |-> "b_p95"]
      [] loc.pc = "v_log_no_views" ->
            [message |-> "No views with assets found", level |-> "warn",
             next |-> "v_complete_empty"]
      [] loc.pc = "v_log_found" ->
            [message |-> "Found " \o ToString(Len(loc.views))
                         \o " view(s) to process",
             level |-> "info", next |-> "v_view_progress"]
      [] loc.pc = "v_future_log" ->
            [message |-> "Failed to upload a tile: " \o loc.exc,
             level |-> "error", next |-> "v_read_count"]
      [] loc.pc = "v_log_generated" ->
            [message |-> "Generated tiles for view: " \o current_view(loc).ref,
             level |-> "info", next |-> AfterView(loc)]
      [] loc.pc = "v_log_failed" ->
            [message |-> "Failed to generate tiles for "
                         \o current_view(loc).ref \o ": " \o loc.exc,
             level |-> "error", next |-> AfterView(loc)]

\* the log steps that end an iteration of the loop over the assets or views
EndOfIteration ==
    {"b_log_generated", "b_log_failed", "v_log_generated", "v_log_failed"}

\* the fail_job calls that end an orchestrator with an early return
OrchFailSteps ==
    {"b_fail_not_found", "b_fail_status", "b_fail_manifest",
     "v_fail_not_found"}
OrchFailAt_unspecific(loc) == "Job failed"
OrchFailAt(loc) ==
    CASE loc.pc = "b_fail_not_found" -> "Project or version not found"
      [] loc.pc = "b_fail_status" ->
            "Cannot build version with status: " \o version[1].status
      [] loc.pc = "b_fail_manifest" -> "Failed to build manifest"
      [] loc.pc = "v_fail_not_found" -> "Building not found"

\* the steps that call start_job, and the step after it
OrchStartSteps == {"b_start", "v_start", "t_start"}
OrchAfterStart(loc) ==
    CASE loc.pc = "b_start" -> "b_p2"
      [] loc.pc = "v_start" -> "v_p5"
      [] loc.pc = "t_start" -> "t_p5"

\* the steps that call complete_job
OrchCompleteSteps == {"b_complete", "v_complete_empty", "v_complete",
                      "t_complete"}

\* steps of the try block of an orchestrator at which a call can raise (the
\* calls of _generate_tiles_for_asset and _generate_tiles_for_view raise as
\* one of their outcomes)
OrchTryBlock ==
    {"b_get_version", "b_find_assets", "b_build_manifest",
     "b_upload_manifest", "v_get_building", "v_find_views", "v_commit",
     "t_download", "t_generate_tiles", "t_upload"}
    \cup OrchStartSteps \cup OrchProgressSteps \cup OrchLogSteps
    \cup OrchFailSteps \cup OrchCompleteSteps

\* the message of the exception a step raises
OrchException(pc) ==
    IF pc \in {"b_upload_manifest", "t_upload"} THEN "Upload failed"
    ELSE IF pc = "t_download" THEN "Failed to download asset"
    ELSE IF pc = "t_generate_tiles" THEN "cannot identify image file"
    ELSE "Database error"

\* the add_log calls inside the try block of a loop body (build_job.py line
\* 129, building_build_job.py line 118)
InnerTryLog == {"b_log_generated", "v_log_generated"}

\* the job tracker calls inside _generate_tiles_for_view (lines 217, 223)
InsidePool == {"v_future_log", "v_future_progress"}

\* except clauses that log a failed upload of the manifest and go on
OrchHandler_swallowing(pc) ==
    IF pc = "b_log_generated" THEN "b_log_failed"
    ELSE IF pc = "v_log_generated" THEN "v_log_failed"
    ELSE IF pc \in InsidePool THEN "v_shutdown"
    ELSE IF pc = "b_upload_manifest" THEN "b_log_preview"
    ELSE "o_except"

\* the handler an exception raised at a step reaches: the except of the loop
\* body (build_job.py line 135, building_build_job.py line 124, the latter
\* after the thread pool has shut down), otherwise the outer except
OrchHandler(pc) ==
    IF pc = "b_log_generated" THEN "b_log_failed"
    ELSE IF pc = "v_log_generated" THEN "v_log_failed"
    ELSE IF pc \in InsidePool THEN "v_shutdown"
    ELSE "o_except"

\* the history of outcomes after a step raised: "log" is the outcome of an
\* item whose processing ended with a raising job tracker call
RaisedOutcomes(loc) ==
    IF loc.pc \in InnerTryLog
    THEN [loc.outcomes EXCEPT ![Len(loc.outcomes)] = "log"]
    ELSE Append(loc.outcomes, "log")

\* the rows after the commit of a job tracker call, which also writes the
\* pending changes of the session
OrchDb(r) ==
    /\ version' = version
    /\ project' = IF run[r].job_id \in DOMAIN jobs THEN Flush(run[r])
                  ELSE project

\* start_job at the head of an orchestrator
OrchStart(r) ==
    /\ At(r, OrchStartSteps)
    /\ start_job(run[r].job_id)
    /\ Set(r, [run[r] EXCEPT !.pc = OrchAfterStart(run[r])])
    /\ UNCHANGED storage /\ OrchDb(r) /\ RunFrame

\* an update_progress call of an orchestrator
OrchProgress(r) ==
    /\ At(r, OrchProgressSteps)
    /\ LET step == OrchProgressAt(run[r]) IN
         /\ update_progress(run[r].job_id, step.percent, step.message)
         /\ Set(r, [run[r] EXCEPT !.pc = step.next])
    /\ UNCHANGED storage /\ OrchDb(r) /\ RunFrame

\* an add_log call of an orchestrator
OrchLog(r) ==
    /\ At(r, OrchLogSteps)
    /\ LET loc == run[r]
           step == OrchLogAt(loc)
       IN
         /\ add_log(loc.job_id, step.message, step.level)
         /\ Set(r, [loc EXCEPT !.pc = step.next,
                               !.idx = IF loc.pc \in EndOfIteration
                                       THEN @ + 1 ELSE @])
    /\ UNCHANGED storage /\ OrchDb(r) /\ RunFrame

\* an early return that leaves out the fail_job call
OrchFail_without_fail_job(r) ==
    /\ At(r, OrchFailSteps)
    /\ Set(r, [run[r] EXCEPT !.pc = "returned"])
    /\ UNCHANGED storage /\ JobFrame /\ DbFrame /\ RunFrame

\* fail_job, then return
OrchFail(r) ==
    /\ At(r, OrchFailSteps)
    /\ fail_job(run[r].job_id, OrchFailAt(run[r]))
    /\ Set(r, [run[r] EXCEPT !.pc = "returned"])
    /\ UNCHANGED storage /\ OrchDb(r) /\ RunFrame

\* build_job.py lines 63-72
BuildGetVersion(r) ==
    /\ At(r, {"b_get_version"})
    /\ Set(r, [run[r] EXCEPT !.pc =
                 IF get_version = <<>> THEN "b_fail_not_found"
                 ELSE IF version[1].status # "draft" THEN "b_fail_status"
                 ELSE "b_p5"])
    /\ UNCHANGED storage /\ JobFrame /\ DbFrame /\ RunFrame

\* build_job.py lines 77-86
BuildFindAssets(r) ==
    /\ At(r, {"b_find_assets"})
    /\ \E base_maps \in OrderedBy(project[1].assets, LevelBefore) :
         Set(r, [run[r] EXCEPT !.base_maps = base_maps,
                               !.pc = IF base_maps = <<>>
                                      THEN "b_log_no_maps" ELSE "b_p8"])
    /\ UNCHANGED storage /\ JobFrame /\ DbFrame /\ RunFrame

\* build_job.py lines 91-92
BuildLocal(r) ==
    /\ At(r, {"b_build_id"})
    /\ Set(r, [run[r] EXCEPT
                 !.build_id = "bld_" \o r,
                 !.build_path = "mp/" \o Slug \o "/builds/bld_" \o r,
                 !.pc = "b_log_build_id"])
    /\ UNCHANGED storage /\ JobFrame /\ DbFrame /\ RunFrame

\* build_job.py lines 115-127, 135: the call of _generate_tiles_for_asset
\* inside the try block of the loop body
BuildGenerate(r) ==
    /\ At(r, {"b_generate"})
    /\ LET loc == run[r]
           asset == current_asset(loc)
           level == asset_level(asset)
       IN \E outcome \in AssetOutcomes :
            LET g == _generate_tiles_for_asset(asset, loc.build_path, level,
                                               outcome)
            IN /\ storage' = g.storage
               /\ IF g.exc = None
                  THEN Set(r, [loc EXCEPT
                          !.all_tiles_metadata =
                              DictSet(@, level, g.metadata[1]),
                          !.total_tile_count = @ + g.metadata[1].tile_count,
                          !.outcomes = Append(@, outcome.stage),
                          !.pc = "b_log_generated"])
                  ELSE Set(r, [loc EXCEPT
                          !.exc = g.exc,
                          !.outcomes = Append(@, outcome.stage),
                          !.pc = "b_log_failed"])
    /\ JobFrame /\ DbFrame /\ RunFrame

\* build_job.py line 143
primary_tiles(all_tiles_metadata) ==
    IF \E i \in DOMAIN all_tiles_metadata :
          all_tiles_metadata[i].key = "project"
    THEN <<DictItems(all_tiles_metadata)["project"]>>
    ELSE IF all_tiles_metadata # <<>> THEN <<all_tiles_metadata[1].value>>
    ELSE <<>>

\* build_job.py lines 145-155
BuildManifest(r) ==
    /\ At(r, {"b_build_manifest"})
    /\ LET m == build_manifest(run[r].build_id,
                               primary_tiles(run[r].all_tiles_metadata),
                               "project")
       IN Set(r, [run[r] EXCEPT !.manifest = m,
                                !.pc = IF m = <<>> THEN "b_fail_manifest"
                                       ELSE "b_p85"])
    /\ UNCHANGED storage /\ JobFrame /\ DbFrame /\ RunFrame

\* build_job.py lines 160-170
BuildUploadManifest(r) ==
    /\ At(r, {"b_upload_manifest"})
    /\ LET manifest_key_ == run[r].build_path \o "/release.json" IN
         /\ storage' = upload_file(manifest_key_, run[r].manifest[1])
         /\ Set(r, [run[r] EXCEPT
                      !.preview_url = get_public_url(manifest_key_),
                      !.pc = "b_log_preview"])
    /\ JobFrame /\ DbFrame /\ RunFrame

\* build_job.py lines 176-188
build_job_result(loc) ==
    [build_id |-> loc.build_id, build_path |-> loc.build_path,
     preview_url |-> loc.preview_url,
     overlay_count |-> Len(loc.manifest[1].overlays),
     checksum |-> loc.manifest[1].checksum,
     tiles |-> [levels |-> DictKeys(loc.all_tiles_metadata),
                total_count |-> loc.total_tile_count,
                metadata |-> DictItems(loc.all_tiles_metadata)],
     built_at |-> now]

\* building_build_job.py lines 62-69
ViewGetBuilding(r) ==
    /\ At(r, {"v_get_building"})
    /\ Set(r, [run[r] EXCEPT
                 !.building = project[1].building,
                 !.pc = IF project[1].building = <<>>
                        THEN "v_fail_not_found" ELSE "v_find_views"])
    /\ UNCHANGED storage /\ JobFrame /\ DbFrame /\ RunFrame

\* building_build_job.py lines 72-81: the views come into the session
ViewFindViews(r) ==
    /\ At(r, {"v_find_views"})
    /\ \E views \in OrderedBy(selected_views, ViewBefore) :
         Set(r, [run[r] EXCEPT
                   !.views = views,
                   !.session =
                       [ref \in {v.ref : v \in selected_views} |->
                          LET v == CHOOSE v \in selected_views : v.ref = ref
                          IN [view_box |-> v.view_box,
                              tiles_generated |-> v.tiles_generated]],
                   !.pc = IF views = <<>> THEN "v_log_no_views"
                          ELSE "v_log_found"])
    /\ UNCHANGED storage /\ JobFrame /\ DbFrame /\ RunFrame

\* building_build_job.py lines 166-186: the download and generate_tiles of
\* _generate_tiles_for_view; either raises, or view_box is set on the view
\* and the tile files are listed
ViewGenerateTiles(r) ==
    /\ At(r, {"v_generate_tiles"})
    /\ LET loc == run[r]
           ref == current_view(loc).ref
       IN \/ \E stage \in {"download", "tiling"} :
               Set(r, [loc EXCEPT
                         !.exc = IF stage = "download"
                                 THEN "Failed to download asset"
                                 ELSE "cannot identify image file",
                         !.outcomes = Append(@, stage),
                         !.pc = "v_log_failed"])
          \/ Set(r, [loc EXCEPT
                       !.session[ref].view_box = "0 0 2048 4096",
                       !.tile_files = TileNames,
                       !.pc = "v_submit"])
    /\ UNCHANGED storage /\ JobFrame /\ DbFrame /\ RunFrame

\* building_build_job.py lines 188-210: the pool is created and every tile
\* file is submitted to it
ViewSubmit(r) ==
    /\ At(r, {"v_submit"})
    /\ \E raises \in SUBSET run[r].tile_files :
         Set(r, [run[r] EXCEPT
                   !.raises = raises, !.finished = {}, !.yielded = {},
                   !.uploaded_count = 0,
                   !.attempts = [t \in run[r].tile_files |-> 0],
                   !.pc = "v_as_completed"])
    /\ UNCHANGED storage /\ JobFrame /\ DbFrame /\ RunFrame

\* the steps of the run during which the threads of the pool run
PoolRunning ==
    {"v_as_completed", "v_future_log", "v_read_count", "v_future_progress",
     "v_shutdown"}

\* building_build_job.py lines 192-207: upload_single_tile in a thread of the
\* pool
ViewUploadSingleTile(r) ==
    /\ At(r, PoolRunning)
    /\ LET loc == run[r]
           tiles_key_prefix == BuildPath \o "/tiles/buildings/"
                               \o loc.building[1].ref \o "/"
                               \o current_view(loc).ref \o "/"
       IN \E t \in loc.tile_files \ loc.finished :
            /\ storage' = IF t \in loc.raises THEN storage
                          ELSE upload_file(tiles_key_prefix \o t, "tile")
            /\ Set(r, [loc EXCEPT
                         !.attempts[t] = @ + 1,
                         !.finished = @ \cup {t},
                         !.uploaded_count = IF t \in loc.raises THEN @
                                             ELSE @ + 1])
    /\ JobFrame /\ DbFrame /\ RunFrame

\* building_build_job.py lines 212-217, 229: as_completed yields a finished
\* future and future.result() returns or raises; after the last future the
\* with block ends and the metadata is returned (lines 110-116: the entry of
\* the view is stored and tiles_generated set)
ViewAsCompleted(r) ==
    /\ At(r, {"v_as_completed"})
    /\ LET loc == run[r]
           ref == current_view(loc).ref
       IN IF loc.yielded = loc.tile_files
          THEN Set(r, [loc EXCEPT
                  !.all_tiles_metadata =
                      DictSet(@, ref,
                              [view_ref |-> ref,
                               tile_count |-> loc.uploaded_count,
                               view_box |-> loc.session[ref].view_box]),
                  !.total_tile_count = @ + loc.uploaded_count,
                  !.session[ref].tiles_generated = TRUE,
                  !.outcomes = Append(@, "ok"),
                  !.pc = "v_log_generated"])
          ELSE \E t \in loc.finished \ loc.yielded :
                  Set(r, [loc EXCEPT
                            !.yielded = @ \cup {t},
                            !.exc = IF t \in loc.raises THEN "Upload failed"
                                    ELSE @,
                            !.pc = IF t \in loc.raises THEN "v_future_log"
                                   ELSE "v_read_count"])
    /\ UNCHANGED storage /\ JobFrame /\ DbFrame /\ RunFrame

\* building_build_job.py lines 219-221
ViewReadCount(r) ==
    /\ At(r, {"v_read_count"})
    /\ LET current == run[r].uploaded_count IN
         Set(r, [run[r] EXCEPT
                   !.current = current,
                   !.pc = IF current % 50 = 0
                             \/ current = Cardinality(run[r].tile_files)
                          THEN "v_future_progress" ELSE "v_as_completed"])
    /\ UNCHANGED storage /\ JobFrame /\ DbFrame /\ RunFrame

\* the exit of the with block of line 209 on an exception: the pool waits for
\* its threads, then the exception reaches the except of line 124
ViewShutdown(r) ==
    /\ At(r, {"v_shutdown"})
    /\ run[r].finished = run[r].tile_files
    /\ Set(r, [run[r] EXCEPT !.pc = "v_log_failed"])
    /\ UNCHANGED storage /\ JobFrame /\ DbFrame /\ RunFrame

\* building_build_job.py line 127
ViewCommit(r) ==
    /\ At(r, {"v_commit"})
    /\ project' = Flush(run[r])
    /\ Set(r, [run[r] EXCEPT !.pc = "v_p95"])
    /\ UNCHANGED <<storage, version>> /\ JobFrame /\ RunFrame

\* building_build_job.py lines 130-136
view_job_result(loc) ==
    [building_ref |-> loc.building[1].ref,
     views_processed |-> Len(loc.all_tiles_metadata),
     total_tile_count |-> loc.total_tile_count,
     views |-> DictItems(loc.all_tiles_metadata),
     built_at |-> now]

\* tile_generation_job.py lines 57, 70: the download of the source image, then
\* generate_tiles
TilePrepare(r) ==
    /\ At(r, {"t_download", "t_generate_tiles"})
    /\ IF run[r].pc = "t_download"
       THEN Set(r, [run[r] EXCEPT !.pc = "t_p10"])
       ELSE Set(r, [run[r] EXCEPT !.tile_files = TileNames, !.pc = "t_p80"])
    /\ UNCHANGED storage /\ JobFrame /\ DbFrame /\ RunFrame

\* tile_generation_job.py lines 82-102: the upload of the next tile file (no
\* progress is reported below 100 tiles)
TileUpload(r) ==
    /\ At(r, {"t_upload"})
    /\ LET loc == run[r] IN
         IF loc.uploaded = loc.tile_files
         THEN /\ Set(r, [loc EXCEPT !.pc = "t_p95"])
              /\ UNCHANGED storage
         ELSE \E t \in loc.tile_files \ loc.uploaded :
                 /\ storage' = upload_file(staging_tiles_prefix \o t, "tile")
                 /\ Set(r, [loc EXCEPT !.uploaded = @ \cup {t},
                                       !.tile_count = @ + 1])
    /\ JobFrame /\ DbFrame /\ RunFrame

\* tile_generation_job.py lines 107-115
tile_job_result(loc) ==
    [tiles_path |-> staging_tiles_prefix, tile_count |-> loc.tile_count]

\* the result an orchestrator completes its job with
OrchResult(loc) ==
    CASE loc.pc = "b_complete" -> build_job_result(loc)
      [] loc.pc = "v_complete_empty" -> [views_processed |-> 0]
      [] loc.pc = "v_complete" -> view_job_result(loc)
      [] loc.pc = "t_complete" -> tile_job_result(loc)

\* complete_job, then return
OrchComplete(r) ==
    /\ At(r, OrchCompleteSteps)
    /\ complete_job(run[r].job_id, <<OrchResult(run[r])>>)
    /\ Set(r, [run[r] EXCEPT !.pc = "returned"])
    /\ UNCHANGED storage /\ OrchDb(r) /\ RunFrame

\* a call of the step raises before it has any effect
OrchRaise(r) ==
    /\ At(r, OrchTryBlock)
    /\ LET loc == run[r]
           raised == [loc EXCEPT !.exc = OrchException(loc.pc),
                                 !.pc = OrchHandler(loc.pc)]
       IN IF loc.pc \in InnerTryLog \cup InsidePool
          THEN Set(r, [raised EXCEPT !.outcomes = RaisedOutcomes(loc)])
          ELSE Set(r, raised)
    /\ UNCHANGED storage /\ JobFrame /\ DbFrame /\ RunFrame

\* the outer except of an orchestrator: fail_job(job_id, str(e)), then the
\* exception is re-raised
OrchExcept(r) ==
    /\ At(r, {"o_except"})
    /\ fail_job(run[r].job_id, run[r].exc)
    /\ Set(r, [run[r] EXCEPT !.pc = "raised"])
    /\ UNCHANGED storage /\ OrchDb(r) /\ RunFrame

---------------------------------------------------------------------------
(* One run of each orchestrator, from the state its endpoint leaves *)

\* the job row create_job leaves for a background task
QueuedJob(job_type, metadata) ==
    [id |-> "j1", job_type |-> job_type, status |-> "queued", progress |-> 0,
     message |-> "Job queued", result |-> <<metadata>>,
     error |-> None, logs |-> <<>>, created_at |-> 0, started_at |-> NoTime,
     completed_at |-> NoTime]

\* the state shared by the three runs: one queued job and its first message
InitOrch(job) ==
    /\ now = 1
    /\ channels = <<>>
    /\ queues = <<>>
    /\ call = NoCall
    /\ streams = <<>>
    /\ storage = <<>>
    /\ published = [c \in {get_channel("j1")} |->
                      <<SSEMessage(to_dict(job), "job_update", <<"0">>)>>]
    /\ jobs = [j \in {"j1"} |-> job]

\* the rows a preview build can find: the version may have been published, or
\* the project removed, after start_build queued the job
InitBuild ==
    /\ InitOrch(QueuedJob("build", [version_number |-> 1]))
    /\ \E db \in Databases, assets \in AssetSets :
         /\ project = IF db.project = <<>> THEN <<>>
                      ELSE <<[current_release_id |-> db.project[1],
                              overlays |-> {ZoneA, UnitA},
                              assets |-> assets]>>
         /\ version = db.version
    /\ run = [r \in Runs |-> NewBuildRun("j1")]

\* the rows a building-view build can find: the building may have been
\* deleted after the endpoint queued the job
InitBuildingBuild ==
    /\ InitOrch(QueuedJob("building_tiles", [building_ref |-> "b1"]))
    /\ \E building \in {<<>>, <<[ref |-> "b1"]>>}, views \in ViewSets :
         project = <<[building |-> building, views |-> views]>>
    /\ version = <<DraftVersion>>
    /\ run = [r \in Runs |-> NewViewRun("j1")]

InitTileGeneration ==
    /\ InitOrch(QueuedJob("tile_generation", [asset_key |-> "assets/a1.png"]))
    /\ project = <<[current_release_id |-> None]>>
    /\ version = <<DraftVersion>>
    /\ run = [r \in Runs |-> NewTileRun("j1")]

\* the steps shared by the three orchestrators
NextOrch ==
    \/ \E r \in Runs : OrchStart(r)
    \/ \E r \in Runs : OrchProgress(r)
    \/ \E r \in Runs : OrchLog(r)
    \/ \E r \in Runs : OrchFail(r)
    \/ \E r \in Runs : OrchComplete(r)
    \/ \E r \in Runs : OrchRaise(r)
    \/ \E r \in Runs : OrchExcept(r)

NextBuild ==
    \/ NextOrch
    \/ \E r \in Runs : BuildGetVersion(r)
    \/ \E r \in Runs : BuildFindAssets(r)
    \/ \E r \in Runs : BuildLocal(r)
    \/ \E r \in Runs : BuildGenerate(r)
    \/ \E r \in Runs : BuildManifest(r)
    \/ \E r \in Runs : BuildUploadManifest(r)

NextBuildingBuild ==
    \/ \E r \in Runs : ViewGetBuilding(r)
    \/ \E r \in Runs : ViewFindViews(r)
    \/ \E r \in Runs : ViewGenerateTiles(r)
    \/ \E r \in Runs : ViewSubmit(r)
    \/ \E r \in Runs : ViewUploadSingleTile(r)
    \/ \E r \in Runs : ViewAsCompleted(r)
    \/ \E r \in Runs : ViewReadCount(r)
    \/ \E r \in Runs : ViewShutdown(r)
    \/ \E r \in Runs : ViewCommit(r)

NextTileGeneration ==
    \/ \E r \in Runs : TilePrepare(r)
    \/ \E r \in Runs : TileUpload(r)

SpecBuild == InitBuild /\ [][NextBuild]_vars

\* a run of any of the four orchestrators
InitOrchestrators ==
    InitPublish \/ InitBuild \/ InitBuildingBuild \/ InitTileGeneration
NextOrchestrators ==
    NextPublish \/ NextBuild \/ NextBuildingBuild \/ NextTileGeneration
SpecOrchestrators == InitOrchestrators /\ [][NextOrchestrators]_vars

\* an orchestrator is a coroutine of the event loop: a run that can take a
\* step takes one
FairSpecOrchestrators == SpecOrchestrators /\ WF_vars(NextOrchestrators)

---------------------------------------------------------------------------
(* The update_progress calls of the four orchestrators with the tile counts
   at which the periodic updates happen: every 50 tiles in the preview build
   and the building-view build, every 100 tiles in the tile generation. *)

MaxUnits == 3
MaxTiles == 101
MaxAhead == 1

OrchKinds == {"build", "view", "tile", "publish"}
TileCounts == {1, 50, MaxTiles}

\* the percents passed before the loop over the units (build_job.py lines
\* 60, 74, 88; building_build_job.py line 59; tile_generation_job.py lines
\* 49, 59, 73; publish_job.py lines 65, 80, 136, 145, 222, 244)
PercentsBefore(kind) ==
    IF kind = "build" THEN <<2, 5, 8>>
    ELSE IF kind = "view" THEN <<5>>
    ELSE IF kind = "tile" THEN <<5, 10, 80>>
    ELSE <<5, 8, 10, 20, 60, 70>>

\* the percents passed after the loop (build_job.py lines 139, 157, 173;
\* building_build_job.py line 128; tile_generation_job.py line 104;
\* publish_job.py lines 266, 329, 335, 351, the first one only if a zone
\* level has content)
PercentsAfter(kind, zones) ==
    IF kind = "build" THEN <<75, 85, 95>>
    ELSE IF kind \in {"view", "tile"} THEN <<95>>
    ELSE IF zones THEN <<75, 85, 90, 95>>
    ELSE <<85, 90, 95>>

\* the share of the bar the loop over the units covers
Span(kind) == IF kind = "build" THEN 60 ELSE 80

\* map_progress_base (build_job.py line 107), view_progress_base
\* (building_build_job.py line 91)
progress_base_of(kind, idx, total) == 10 + ((idx * Span(kind)) \div total)

\* a range that is the whole span whatever the number of units
progress_range_whole(kind, total) == Span(kind)

\* progress_range (build_job.py line 123, building_build_job.py line 108)
progress_range_of(kind, total) == Span(kind) \div total

\* the percent of a periodic update (build_job.py lines 256-259,
\* building_build_job.py lines 222-225, tile_generation_job.py lines 97-100);
\* the products with 0.8 are exact for the ranges of up to four units
periodic_progress(kind, idx, total, tile_count, total_tiles) ==
    IF kind = "tile"
    THEN Min(95, 80 + ((tile_count * 15) \div total_tiles))
    ELSE LET base == progress_base_of(kind, idx, total)
             range == progress_range_of(kind, total)
         IN Min(base + range,
                base + ((tile_count * range * 8) \div (total_tiles * 10)))

\* the position of a run in its progress calls: k is the index in the list
\* of fixed percents, idx the unit, tile_count the tiles uploaded (the last
\* sample of the counter in a building-view build), yielded the futures the
\* loop has taken, failed the units that raised, percent the last value passed, 0 after start_job, calls the
\* parity of the number of calls
NewProgressRun(kind, total, total_tiles, zones) ==
    [pc |-> "before", kind |-> kind, total |-> total,
     total_tiles |-> total_tiles, zones |-> zones, k |-> 1, idx |-> 0,
     tile_count |-> 0, yielded |-> 0, failed |-> {}, percent |-> 0,
     calls |-> 0, job_id |-> "j1"]

InitProgress ==
    /\ now = 1
    /\ channels = <<>>
    /\ queues = <<>>
    /\ call = NoCall
    /\ streams = <<>>
    /\ published = <<>>
    /\ version = <<>>
    /\ project = <<>>
    /\ storage = <<>>
    /\ \E kind \in OrchKinds, total \in 1..MaxUnits, total_tiles \in TileCounts,
          zones \in BOOLEAN :
         /\ kind \in {"tile", "publish"} => total = 1
         /\ kind = "publish" => total_tiles = 1
         /\ kind # "publish" => zones = FALSE
         /\ run = [r \in Runs |->
                     NewProgressRun(kind, total, total_tiles, zones)]
         /\ jobs = [j \in {"j1"} |-> start_job_fields(new_job("j1", kind, <<>>))]

\* an update_progress call of the run, which then is at loc
Passes(r, loc, percent, message) ==
    /\ update_progress(run[r].job_id, percent, message)
    /\ Set(r, [loc EXCEPT !.percent = percent, !.calls = 1 - @])

\* a step of the run without a call of the job tracker
Moves(r, loc) == Set(r, loc) /\ JobFrame

ProgressFrame == UNCHANGED storage /\ DbFrame /\ RunFrame

\* the next of the calls with a fixed percent
ProgressFixed(r) ==
    /\ At(r, {"before", "after"})
    /\ LET loc == run[r]
           percents == IF loc.pc = "before" THEN PercentsBefore(loc.kind)
                       ELSE PercentsAfter(loc.kind, loc.zones)
           next == IF loc.k < Len(percents) THEN loc.pc
                   ELSE IF loc.pc = "after" THEN "returned"
                   ELSE IF loc.kind = "publish" THEN "after"
                   ELSE IF loc.kind = "tile" THEN "tiles"
                   ELSE "unit"
       IN Passes(r, [loc EXCEPT !.pc = next,
                                !.k = IF next = loc.pc THEN @ + 1 ELSE 1],
                 percents[loc.k], "Step " \o ToString(percents[loc.k]))
    /\ ProgressFrame

\* build_job.py lines 105-113, building_build_job.py lines 90-98: the head
\* of the loop over the assets or views
ProgressUnit(r) ==
    /\ At(r, {"unit"})
    /\ LET loc == run[r] IN
         IF loc.idx = loc.total
         THEN Moves(r, [loc EXCEPT !.pc = "after", !.k = 1])
         ELSE Passes(r, [loc EXCEPT !.pc = "tiles", !.tile_count = 0,
                                    !.yielded = 0],
                     progress_base_of(loc.kind, loc.idx, loc.total),
                     "Processing (" \o ToString(loc.idx + 1) \o "/"
                     \o ToString(loc.total) \o ")...")
    /\ ProgressFrame

\* build_job.py lines 241-261, tile_generation_job.py lines 82-102: the
\* upload of the next tile, with the update after every 50th or 100th tile;
\* an upload that raises ends the unit in the preview build (lines 135-137)
\* and the run in the tile generation
ProgressUpload(r) ==
    /\ At(r, {"tiles"})
    /\ run[r].kind \in {"build", "tile"}
    /\ LET loc == run[r]
           every == IF loc.kind = "tile" THEN 100 ELSE 50
           tile_count == loc.tile_count + 1
           over == [loc EXCEPT !.pc = IF loc.kind = "tile" THEN "after"
                                      ELSE "unit",
                               !.k = 1,
                               !.idx = IF loc.kind = "tile" THEN @ ELSE @ + 1]
       IN IF loc.tile_count = loc.total_tiles
          THEN Moves(r, over)
          ELSE \/ IF tile_count % every = 0
                  THEN Passes(r, [loc EXCEPT !.tile_count = tile_count],
                              periodic_progress(loc.kind, loc.idx, loc.total,
                                                tile_count, loc.total_tiles),
                              "Uploading tiles... (" \o ToString(tile_count)
                              \o "/" \o ToString(loc.total_tiles) \o ")")
                  ELSE Moves(r, [loc EXCEPT !.tile_count = tile_count])
               \/ Moves(r, IF loc.kind = "tile"
                           THEN [loc EXCEPT !.pc = "raised"]
                           ELSE [over EXCEPT !.failed = @ \cup {loc.idx}])
    /\ ProgressFrame

\* building_build_job.py lines 212-227: the loop takes the next finished
\* future and samples the counter, which counts the future taken and up to
\* MaxAhead uploads that finished after it, and has not gone down; a
\* download or tiling that raises ends the view
ProgressSample(r) ==
    /\ At(r, {"tiles"})
    /\ run[r].kind = "view"
    /\ LET loc == run[r]
           over == [loc EXCEPT !.pc = "unit", !.idx = @ + 1]
       IN IF loc.yielded = loc.total_tiles
          THEN Moves(r, over)
          ELSE \/ \E current \in Max(loc.tile_count, loc.yielded + 1)
                                ..Min(loc.total_tiles,
                                      loc.yielded + 1 + MaxAhead) :
                    LET next == [loc EXCEPT !.tile_count = current,
                                            !.yielded = @ + 1]
                    IN IF current % 50 = 0 \/ current = loc.total_tiles
                       THEN Passes(r, next,
                                   periodic_progress(loc.kind, loc.idx,
                                                     loc.total, current,
                                                     loc.total_tiles),
                                   "Uploading tiles... ("
                                   \o ToString(current) \o "/"
                                   \o ToString(loc.total_tiles) \o ")")
                       ELSE Moves(r, next)
               \/ /\ loc.yielded = 0
                  /\ Moves(r, [over EXCEPT !.failed = @ \cup {loc.idx}])
    /\ ProgressFrame

NextProgress ==
    \/ \E r \in Runs : ProgressFixed(r)
    \/ \E r \in Runs : ProgressUnit(r)
    \/ \E r \in Runs : ProgressUpload(r)
    \/ \E r \in Runs : ProgressSample(r)

SpecProgress == InitProgress /\ [][NextProgress]_vars

---------------------------------------------------------------------------
(* The release service called on the overlays of a project: build_manifest
   for a level, get_zone_levels *)

MaxBuilds == 2

\* overlays of a project; (overlay_type, ref) is unique within a project.
\* PoiA ties with UnitA on sort_order and ref; ZoneSub is a zone drawn on the
\* map of zone-a; UnitP, UnitN and UnitE carry the level "project", no level
\* and an empty level
ZoneSub == [ref |-> "a1", overlay_type |-> "zone", source_level |-> "zone-a",
            label |-> "Zone A1", sort_order |-> 1]
PoiA == [ref |-> "u1", overlay_type |-> "poi", source_level |-> "zone-a",
         label |-> "Poi 1", sort_order |-> 2]
UnitP == [ref |-> "u3", overlay_type |-> "unit", source_level |-> "project",
          label |-> "Unit 3", sort_order |-> 4]
UnitN == [ref |-> "u4", overlay_type |-> "unit", source_level |-> None,
          label |-> "Unit 4", sort_order |-> 5]
UnitE == [ref |-> "u5", overlay_type |-> "unit", source_level |-> "",
          label |-> "Unit 5", sort_order |-> 6]
OverlayUniverse == {ZoneA, ZoneSub, UnitA, PoiA, UnitB, UnitP, UnitN, UnitE}
ManifestLevels == {"project", "zone-a", "zone-b"}

\* the manifests built and the zone levels returned so far
NewManifestRun == [pc |-> "m_idle", built |-> <<>>, levels |-> <<>>]

InitManifest ==
    /\ now = 1
    /\ channels = <<>>
    /\ queues = <<>>
    /\ call = NoCall
    /\ streams = <<>>
    /\ storage = <<>>
    /\ published = <<>>
    /\ jobs = <<>>
    /\ version = <<DraftVersion>>
    /\ \E overlays \in SUBSET OverlayUniverse :
         project = <<[current_release_id |-> None, overlays |-> overlays]>>
    /\ run = [r \in Runs |-> NewManifestRun]

\* a call of build_manifest for a level; the overlay query returns the rows
\* in one of the orders its ORDER BY allows
BuildManifestCall(r) ==
    /\ At(r, {"m_idle"})
    /\ Len(run[r].built) < MaxBuilds
    /\ get_version # <<>>
    /\ \E level \in ManifestLevels,
          all_overlays \in OrderedBy(project[1].overlays, OverlayBefore) :
         Set(r, [run[r] EXCEPT !.built =
                   Append(@, ReleaseManifest(all_overlays, "rel_1", <<>>,
                                             level))])
    /\ UNCHANGED storage /\ JobFrame /\ DbFrame /\ RunFrame

\* a call of get_zone_levels; the rows of the DISTINCT query come in any order
GetZoneLevelsCall(r) ==
    /\ At(r, {"m_idle"})
    /\ \E levels \in Orders(get_zone_levels) :
         Set(r, [run[r] EXCEPT !.levels = levels, !.pc = "m_levels"])
    /\ UNCHANGED storage /\ JobFrame /\ DbFrame /\ RunFrame

NextManifest ==
    \/ \E r \in Runs : BuildManifestCall(r)
    \/ \E r \in Runs : GetZoneLevelsCall(r)

SpecManifest == InitManifest /\ [][NextManifest]_vars

---------------------------------------------------------------------------
(* Tile service: app/services/tile_service.py, generate_tiles on one image *)

MaxDim == 6
MaxTileSize == 3

\* a level count that halves once more when temp equals the tile size
levels_from_halving_to_below(temp, levels, tile_size) ==
    LET RECURSIVE loop(_, _)
        loop(t, n) == IF t >= tile_size /\ t > 0 THEN loop(t \div 2, n + 1)
                      ELSE n
    IN loop(temp, levels)

\* lines 63-66: while temp > self.tile_size: temp //= 2; levels += 1
levels_from(temp, levels, tile_size) ==
    LET RECURSIVE loop(_, _)
        loop(t, n) == IF t > tile_size THEN loop(t \div 2, n + 1) ELSE n
    IN loop(temp, levels)

\* 2 ** n
Pow2(n) ==
    LET RECURSIVE pow(_)
        pow(k) == IF k = 0 THEN 1 ELSE 2 * pow(k - 1)
    IN pow(n)

\* a level image that is never scaled down
level_dim_unscaled(dim, scale) == dim

\* lines 78-79: max(1, width // scale)
level_dim(dim, scale) == Max(1, dim \div scale)

\* a grid that drops the partial last column or row
ceil_rounding_down(a, b) == a \div b

\* lines 91-92: math.ceil(a / b) of two positive integers
ceil(a, b) == IF a % b = 0 THEN a \div b ELSE a \div b + 1

\* tile bounds that are not clipped to the level image
tile_bounds_unclipped(x, y, tile_size, level_width, level_height) ==
    [left |-> x * tile_size, top |-> y * tile_size,
     right |-> x * tile_size + tile_size,
     bottom |-> y * tile_size + tile_size]

\* lines 98-101: left, top, right, bottom of tile (x, y)
tile_bounds(x, y, tile_size, level_width, level_height) ==
    [left |-> x * tile_size, top |-> y * tile_size,
     right |-> Min(x * tile_size + tile_size, level_width),
     bottom |-> Min(y * tile_size + tile_size, level_height)]

\* the locals of generate_tiles before it starts; files is the output
\* directory: (level, x, y) of the path {level}/{x}_{y}.{format} -> the box
\* cropped out of the level image
NewTileServiceRun(width, height, tile_size) ==
    [pc |-> "ts_open", width |-> width, height |-> height,
     tile_size |-> tile_size, levels |-> 0, level |-> 0,
     level_width |-> 0, level_height |-> 0, cols |-> 0, rows |-> 0,
     x |-> 0, y |-> 0, tile_count |-> 0, files |-> <<>>, result |-> <<>>]

\* tile.save(tile_path): the file is created or overwritten
save(files, key, box) ==
    [k \in (DOMAIN files) \cup {key} |-> IF k = key THEN box ELSE files[k]]

InitTileService ==
    /\ now = 1
    /\ channels = <<>>
    /\ queues = <<>>
    /\ call = NoCall
    /\ streams = <<>>
    /\ storage = <<>>
    /\ published = <<>>
    /\ jobs = <<>>
    /\ version = <<>>
    /\ project = <<>>
    /\ \E width \in 1..MaxDim, height \in 1..MaxDim,
          tile_size \in 1..MaxTileSize :
         run = [r \in Runs |-> NewTileServiceRun(width, height, tile_size)]

\* lines 52-69: open the image, count the levels, make the output directory
TileServiceOpen(r) ==
    /\ At(r, {"ts_open"})
    /\ LET loc == run[r]
           max_dim == Max(loc.width, loc.height)
       IN Set(r, [loc EXCEPT !.levels = levels_from(max_dim, 1, loc.tile_size),
                             !.tile_count = 0, !.level = 0,
                             !.pc = "ts_level"])
    /\ UNCHANGED storage /\ JobFrame /\ DbFrame /\ RunFrame

\* lines 73-95: the head of the loop over the levels: the size of the level
\* image and its tile grid; after the last level, the return of lines 126-134
TileServiceLevel(r) ==
    /\ At(r, {"ts_level"})
    /\ LET loc == run[r]
           scale == Pow2(loc.levels - loc.level - 1)
           level_width == level_dim(loc.width, scale)
           level_height == level_dim(loc.height, scale)
           cols == ceil(level_width, loc.tile_size)
           rows == ceil(level_height, loc.tile_size)
       IN IF loc.level < loc.levels
          THEN Set(r, [loc EXCEPT
                         !.level_width = level_width,
                         !.level_height = level_height,
                         !.cols = cols, !.rows = rows, !.x = 0, !.y = 0,
                         !.level = IF rows > 0 /\ cols > 0 THEN @ ELSE @ + 1,
                         !.pc = IF rows > 0 /\ cols > 0 THEN "ts_tile"
                                ELSE "ts_level"])
          ELSE Set(r, [loc EXCEPT
                         !.result = <<[width |-> loc.width,
                                       height |-> loc.height,
                                       tile_size |-> loc.tile_size,
                                       overlap |-> 1,
                                       levels |-> loc.levels,
                                       format |-> "webp",
                                       tile_count |-> loc.tile_count]>>,
                         !.pc = "ts_returned"])
    /\ UNCHANGED storage /\ JobFrame /\ DbFrame /\ RunFrame

\* lines 95-119: one pass of the body of the loops over y and x: the tile at
\* (x, y) is skipped if its box is empty, cropped and saved otherwise; then
\* the next x, the next y or the next level
TileServiceTile(r) ==
    /\ At(r, {"ts_tile"})
    /\ LET loc == run[r]
           box == tile_bounds(loc.x, loc.y, loc.tile_size, loc.level_width,
                              loc.level_height)
           skipped == box.right <= box.left \/ box.bottom <= box.top
           last_x == loc.x + 1 >= loc.cols
           last_y == loc.y + 1 >= loc.rows
       IN Set(r, [loc EXCEPT
                    !.files = IF skipped THEN @
                              ELSE save(@, <<loc.level, loc.x, loc.y>>, box),
                    !.tile_count = IF skipped THEN @ ELSE @ + 1,
                    !.x = IF last_x THEN 0 ELSE @ + 1,
                    !.y = IF last_x THEN @ + 1 ELSE @,
                    !.level = IF last_x /\ last_y THEN @ + 1 ELSE @,
                    !.pc = IF last_x /\ last_y THEN "ts_level" ELSE "ts_tile"])
    /\ UNCHANGED storage /\ JobFrame /\ DbFrame /\ RunFrame

NextTileService ==
    \/ \E r \in Runs : TileServiceOpen(r)
    \/ \E r \in Runs : TileServiceLevel(r)
    \/ \E r \in Runs : TileServiceTile(r)

SpecTileService == InitTileService /\ [][NextTileService]_vars

---------------------------------------------------------------------------
(* The thread pool of a bulk transfer, thread by thread: the copy pool of
   copy_tiles_parallel_threaded (publish_job.py) and the upload pool of
   _generate_tiles_for_view (building_build_job.py). A worker runs the
   transfer of its item, then takes the lock and adds one to the counter;
   the statement counter += 1 is a read followed by a write. *)

MaxItems == 3

\* the relative path of the i-th item of a transfer
PoolFile(i) == "0/" \o ToString(i) \o "_0.webp"
PoolFiles(n) == {PoolFile(i) : i \in 1..n}

\* the prefixes of a pool: the copy of a publish run reads the tiles of the
\* build and writes under the release; the upload of a view writes under the
\* build
PoolSrcPrefix == BuildPath \o "/tiles/"
PoolDestPrefix(kind) ==
    IF kind = "copy" THEN release_path("rel_1") \o "/tiles/"
    ELSE BuildPath \o "/tiles/buildings/b1/front/"

\* a lock taken without waiting for its holder
acquire_without_exclusion(lock) == TRUE

\* threading.Lock as entered by a with statement: the thread waits until
\* the lock is free
acquire(lock) == lock = None

\* building_build_job.py lines 222-223, for the only view of a building
\* (progress_base 10, progress_range 80): the percent reported for a sample
upload_progress_of(current, total_tiles) ==
    Min(10 + 80, 10 + ((current * 80 * 8) \div (total_tiles * 10)))

\* the locals of a pool before the futures are submitted: th is the position
\* of the worker of each item, tmp the value a worker has read from the
\* counter, transferred the items whose copy_object or put_object returned
NewPool(kind, n) ==
    [pc |-> "pool_submit", kind |-> kind, job_id |-> "j1",
     items |-> PoolFiles(n),
     th |-> [t \in PoolFiles(n) |-> "new"],
     tmp |-> [t \in PoolFiles(n) |-> 0],
     count |-> 0, lock |-> None, transferred |-> {}, yielded |-> {},
     current |-> 0, exc |-> None, result |-> <<>>]

\* a running job, and the tiles of a build for the copy
InitPool ==
    /\ now = 1
    /\ channels = <<>>
    /\ queues = <<>>
    /\ call = NoCall
    /\ streams = <<>>
    /\ published = <<>>
    /\ version = <<>>
    /\ project = <<>>
    /\ jobs = [j \in {"j1"} |->
                 start_job_fields(new_job("j1", "building_tiles", <<>>))]
    /\ \E kind \in {"copy", "upload"}, n \in 1..MaxItems :
         /\ run = [r \in Runs |-> NewPool(kind, n)]
         /\ storage = IF kind = "copy"
                      THEN [k \in {PoolSrcPrefix \o t : t \in PoolFiles(n)}
                              |-> "tile"]
                      ELSE <<>>

\* publish_job.py line 180, building_build_job.py line 210: one future per
\* item
PoolSubmit(r) ==
    /\ At(r, {"pool_submit"})
    /\ Set(r, [run[r] EXCEPT !.th = [t \in run[r].items |-> "submitted"],
                             !.pc = "pool_as_completed"])
    /\ UNCHANGED storage /\ JobFrame /\ DbFrame /\ RunFrame

\* the steps of the orchestrator during which the workers run
PoolOpen ==
    {"pool_as_completed", "pool_future_log", "pool_read_count",
     "pool_future_progress", "pool_shutdown"}

\* publish_job.py lines 161-172, building_build_job.py lines 194-203: the
\* copy_object or put_object of a worker returns or raises
PoolTransfer(r) ==
    /\ At(r, PoolOpen)
    /\ LET loc == run[r] IN
       \E t \in loc.items :
         /\ loc.th[t] = "submitted"
         /\ \/ /\ storage' = IF loc.kind = "copy"
                             THEN copy_tiles_parallel_threaded(
                                     {t}, PoolSrcPrefix,
                                     PoolDestPrefix(loc.kind))
                             ELSE upload_file(PoolDestPrefix(loc.kind) \o t,
                                              "tile")
               /\ Set(r, [loc EXCEPT !.th[t] = "locking",
                                     !.transferred = @ \cup {t}])
            \/ /\ UNCHANGED storage
               /\ Set(r, [loc EXCEPT !.th[t] = "raised"])
    /\ JobFrame /\ DbFrame /\ RunFrame

\* publish_job.py lines 174-175, building_build_job.py lines 205-206: the
\* worker enters the with block of the lock and reads the counter
PoolLockAndRead(r) ==
    /\ At(r, PoolOpen)
    /\ LET loc == run[r] IN
       \E t \in loc.items :
         /\ loc.th[t] = "locking"
         /\ acquire(loc.lock)
         /\ Set(r, [loc EXCEPT !.lock = t, !.tmp[t] = loc.count,
                               !.th[t] = "adding"])
    /\ UNCHANGED storage /\ JobFrame /\ DbFrame /\ RunFrame

\* the worker stores the value it read plus one, leaves the with block and
\* returns True
PoolWriteAndUnlock(r) ==
    /\ At(r, PoolOpen)
    /\ LET loc == run[r] IN
       \E t \in loc.items :
         /\ loc.th[t] = "adding"
         /\ Set(r, [loc EXCEPT !.count = loc.tmp[t] + 1,
                               !.lock = IF @ = t THEN None ELSE @,
                               !.th[t] = "returned"])
    /\ UNCHANGED storage /\ JobFrame /\ DbFrame /\ RunFrame

\* publish_job.py lines 182-190, building_build_job.py lines 212-217: the
\* loop over as_completed takes a finished future; the copy prints the
\* exception of a failed one, the upload logs it and then samples the
\* counter. After the last future the with block ends and the copy returns
\* the counter
PoolAsCompleted(r) ==
    /\ At(r, {"pool_as_completed"})
    /\ LET loc == run[r] IN
         IF loc.yielded = loc.items
         THEN Set(r, [loc EXCEPT !.result = <<loc.count>>,
                                 !.pc = "pool_returned"])
         ELSE \E t \in loc.items \ loc.yielded :
                 /\ loc.th[t] \in {"returned", "raised"}
                 /\ Set(r, [loc EXCEPT
                              !.yielded = @ \cup {t},
                              !.pc = IF loc.kind = "copy"
                                     THEN "pool_as_completed"
                                     ELSE IF loc.th[t] = "raised"
                                     THEN "pool_future_log"
                                     ELSE "pool_read_count"])
    /\ UNCHANGED storage /\ JobFrame /\ DbFrame /\ RunFrame

\* building_build_job.py line 217
PoolFutureLog(r) ==
    /\ At(r, {"pool_future_log"})
    /\ add_log(run[r].job_id, "Failed to upload tile: Upload failed", "error")
    /\ Set(r, [run[r] EXCEPT !.pc = "pool_read_count"])
    /\ UNCHANGED storage /\ DbFrame /\ RunFrame

\* building_build_job.py lines 219-221: the orchestrator takes the lock,
\* reads the counter and releases the lock
PoolReadCount(r) ==
    /\ At(r, {"pool_read_count"})
    /\ acquire(run[r].lock)
    /\ LET current == run[r].count IN
         Set(r, [run[r] EXCEPT
                   !.current = current,
                   !.pc = IF current % 50 = 0
                             \/ current = Cardinality(run[r].items)
                          THEN "pool_future_progress"
                          ELSE "pool_as_completed"])
    /\ UNCHANGED storage /\ JobFrame /\ DbFrame /\ RunFrame

\* building_build_job.py lines 222-227
PoolFutureProgress(r) ==
    /\ At(r, {"pool_future_progress"})
    /\ LET loc == run[r]
           total_tiles == Cardinality(loc.items)
       IN update_progress(loc.job_id,
                          upload_progress_of(loc.current, total_tiles),
                          "Uploading tiles for front... ("
                          \o ToString(loc.current) \o "/"
                          \o ToString(total_tiles) \o ")")
    /\ Set(r, [run[r] EXCEPT !.pc = "pool_as_completed"])
    /\ UNCHANGED storage /\ DbFrame /\ RunFrame

\* a call of the job tracker inside the loop raises: the with block is left
\* on the exception
PoolRaise(r) ==
    /\ At(r, {"pool_future_log", "pool_future_progress"})
    /\ Set(r, [run[r] EXCEPT !.exc = "connection closed",
                             !.pc = "pool_shutdown"])
    /\ UNCHANGED storage /\ JobFrame /\ DbFrame /\ RunFrame

\* ThreadPoolExecutor.__exit__ on an exception: shutdown(wait=True) returns
\* when every worker is done, then the exception leaves the function
PoolShutdown(r) ==
    /\ At(r, {"pool_shutdown"})
    /\ \A t \in run[r].items : run[r].th[t] \in {"returned", "raised"}
    /\ Set(r, [run[r] EXCEPT !.pc = "pool_raised"])
    /\ UNCHANGED storage /\ JobFrame /\ DbFrame /\ RunFrame

NextPool ==
    \/ \E r \in Runs : PoolSubmit(r)
    \/ \E r \in Runs : PoolTransfer(r)
    \/ \E r \in Runs : PoolLockAndRead(r)
    \/ \E r \in Runs : PoolWriteAndUnlock(r)
    \/ \E r \in Runs : PoolAsCompleted(r)
    \/ \E r \in Runs : PoolFutureLog(r)
    \/ \E r \in Runs : PoolReadCount(r)
    \/ \E r \in Runs : PoolFutureProgress(r)
    \/ \E r \in Runs : PoolRaise(r)
    \/ \E r \in Runs : PoolShutdown(r)

SpecPool == InitPool /\ [][NextPool]_vars

---------------------------------------------------------------------------
(* Properties of the publish orchestrator (SpecPublish) *)

\* the history of a channel
Hist(c) == IF c \in DOMAIN published THEN published[c] ELSE <<>>

\* the run has executed mark_version_published on the version row: the row
\* was stamped after the job of the run was created
WroteVersion(r) ==
    /\ version # <<>>
    /\ version[1].status = "published"
    /\ version[1].published_at > jobs[run[r].job_id].created_at

\* the run has executed update_project_current_release on the project row
WroteProject(r) ==
    /\ project # <<>>
    /\ run[r].release_id # None
    /\ project[1].current_release_id = run[r].release_id

\* every tile below the source prefix has its copy below <release>/tiles/
AllTilesCopied(r) ==
    \A n \in TileNames :
        (src_tiles_prefix(run[r]) \o n) \in DOMAIN storage
        => (release_path(run[r].release_id) \o "/tiles/" \o n)
               \in DOMAIN storage

\* the project manifest and the manifest of every zone level with content
\* are stored, and the stored project manifest references every zone manifest
ManifestsUploaded(r) ==
    /\ manifest_key(run[r].release_id) \in DOMAIN storage
    /\ \A z \in get_zone_levels :
          zone_manifest_key(run[r].release_id, z) \in DOMAIN storage
    /\ {i.level : i \in
          {storage[manifest_key(run[r].release_id)].zones[k] :
             k \in DOMAIN storage[manifest_key(run[r].release_id)].zones}}
       = get_zone_levels

\* C1 as stated: the version and the project are written only after every
\* upload has succeeded, the tile copies included.
C1_WritesOnlyAfterAllUploads ==
    \A r \in Runs :
        (WroteVersion(r) \/ WroteProject(r))
        => AllTilesCopied(r) /\ ManifestsUploaded(r)

\* C1 amended: the version and the project are written only after every
\* manifest upload has succeeded (project manifest, every zone manifest, the
\* re-upload of the patched project manifest), and a run in which a manifest
\* upload raised writes neither; a failed tile copy does not prevent them.
C1_WritesOnlyAfterManifestUploads ==
    \A r \in Runs :
        /\ (WroteVersion(r) \/ WroteProject(r)) => ManifestsUploaded(r)
        /\ run[r].exc = exception("upload_manifest")
           => ~WroteVersion(r) /\ ~WroteProject(r)

\* C1 witness: a run has written both rows after uploading the project
\* manifest, two zone manifests and the patched project manifest, although a
\* tile copy failed.
C1_Witness ==
    \E r \in Runs :
        /\ WroteVersion(r) /\ WroteProject(r)
        /\ Len(run[r].zone_info_list) = 2
        /\ ~AllTilesCopied(r)

\* C2 as stated: a publish job that ends failed leaves the version row and
\* the current release of the project as they were before the run.
C2_FailedPublishLeavesReleaseIntact ==
    \A r \in Runs :
        (run[r].pc \in {"returned", "raised"}
         /\ jobs[run[r].job_id].status = "failed")
        => ~WroteVersion(r) /\ ~WroteProject(r)

\* the zone references of the project manifest stored for the release of r
PersistedZones(r) ==
    IF manifest_key(run[r].release_id) \in DOMAIN storage
    THEN storage[manifest_key(run[r].release_id)].zones
    ELSE <<>>

\* the levels whose zone manifest is stored under the release path of r; no
\* manifest is stored before the run
UploadedZoneLevels(r) ==
    {level \in ManifestLevels :
        zone_manifest_key(run[r].release_id, level) \in DOMAIN storage}

---------------------------------------------------------------------------
(* Properties of a cancelled publish run (SpecPublishCancel) *)

\* cancel_job has cancelled the job of run r
CancelledByUser(r) ==
    \E i \in DOMAIN jobs[run[r].job_id].logs :
       jobs[run[r].job_id].logs[i].message = "Job cancelled by user"

\* C27: a step that cancels the job changes the job record only, not the
\* run that drives the job, the store, the version or the project; and a
\* run whose job was cancelled is never held: as long as it has not
\* returned or raised, its next step can be taken.
C27_CancelDoesNotInterrupt ==
    /\ [][\A r \in Runs :
            (~CancelledByUser(r) /\ CancelledByUser(r)')
            => UNCHANGED <<run, storage, version, project>>]_vars
    /\ [](\A r \in Runs :
            (CancelledByUser(r) /\ run[r].pc \notin {"returned", "raised"})
            => ENABLED PublishStep(r))

\* a run whose job was cancelled before the tiles were copied has copied
\* them, uploaded the manifests, written the version and the project, and
\* returned
C27_Witness ==
    \E r \in Runs :
       /\ CancelledByUser(r)
       /\ run[r].pc = "returned"
       /\ WroteVersion(r) /\ WroteProject(r)
       /\ ManifestsUploaded(r) /\ Len(run[r].zone_info_list) = 2
       /\ run[r].total_copied = 2
       /\ \E i, k \in DOMAIN jobs[run[r].job_id].logs :
             /\ i < k
             /\ jobs[run[r].job_id].logs[i].message = "Job cancelled by user"
             /\ jobs[run[r].job_id].logs[k].message = "Copying 2 tiles..."

---------------------------------------------------------------------------
(* Properties of the publish of a large build (SpecPublishLarge) *)

\* the names of the objects stored below the tiles prefix of the build
BuildObjects == {n \in LargeTileNames : (BuildPath \o "/tiles/" \o n) \in DOMAIN storage}

\* C39: after a publish run that completed and in which neither the listing
\* nor a copy raised, every object below the tiles prefix of the build has a copy below
\* <release path>/tiles/ at the same relative path, also when the build has
\* more objects than a listing call returns, and tiles_copied of the result
\* is the number of these objects.
C39_EveryBuildTileCopied ==
    \A r \in DOMAIN run :
        (/\ run[r].pc = "returned"
         /\ jobs[run[r].job_id].status = "completed"
         /\ run[r].build_path # None
         /\ run[r].exc = None
         /\ run[r].raises = {})
        => /\ \A n \in BuildObjects :
                 (release_path(run[r].release_id) \o "/tiles/" \o n)
                     \in DOMAIN storage
           /\ jobs[run[r].job_id].result[1].tiles_copied
                  = Cardinality(BuildObjects)

---------------------------------------------------------------------------
(* Properties of two publish runs on the same version (SpecPublishTwice) *)

\* C35 as stated: of two publish runs started on the same draft version, at
\* most one executes mark_version_published: no run executes it on a version
\* that the other run has already published.
C35_PublishedAtMostOnce ==
    [][\A r \in PublishRuns :
         (/\ run[r].pc = "mark_version_published"
          /\ run'[r].pc = "update_project_current_release")
         => version[1].status # "published"]_vars

\* the release ids the published version rows of the project record
RecordedReleaseIds ==
    {version[i].release_id :
        i \in {k \in DOMAIN version :
                 /\ version[k].status = "published"
                 /\ "release_id" \in DOMAIN version[k]}}

\* C36 as stated: whenever the current_release_id of the project is set, a
\* published version row of the project records that release id.
C36_CurrentReleaseIsRecorded ==
    (project # <<>> /\ project[1].current_release_id # None)
        => project[1].current_release_id \in RecordedReleaseIds

---------------------------------------------------------------------------
(* Properties of concurrent sessions on a job (SpecSessions) *)

\* the entries of the stored log of the job
StoredLogs == {jobs["j1"].logs[i] : i \in DOMAIN jobs["j1"].logs}

\* C37 as stated: every log entry a session has committed, by the cancel
\* endpoint or by the orchestrator, is in the stored logs of the job, and the
\* status a cancel has committed is still the status of the job.
C37_NoLogEntryLost ==
    \A s \in DOMAIN run :
        /\ \A i \in DOMAIN run[s].written : run[s].written[i] \in StoredLogs
        /\ (run[s].call.op = "cancel_job" /\ run[s].written # <<>>)
              => jobs["j1"].status = "cancelled"

---------------------------------------------------------------------------
(* Properties of the job tracker (SpecJobs) *)

\* the step is a call of operation op on job j
Called(op, j) == call'.op = op /\ call'.id = j /\ now' # now

\* C3 as stated: a job whose status is completed, failed or cancelled never
\* has status running again (start_job on a terminal job does not set it to
\* running), and the status only moves along queued -> running -> terminal.
C3_StatusFlow ==
    [][\A j \in DOMAIN jobs :
          /\ jobs[j].status \in Terminal => jobs'[j].status # "running"
          /\ jobs[j].status = "running"
             => jobs'[j].status \in {"running"} \cup Terminal]_vars

\* C4 as stated: complete_job, fail_job and cancel_job applied to a job whose
\* status is terminal leave the status as it was.
C4_TerminalCallsKeepStatus ==
    [][\A j \in DOMAIN jobs :
          (/\ jobs[j].status \in Terminal
           /\ \E op \in {"complete_job", "fail_job", "cancel_job"} :
                 Called(op, j))
          => jobs'[j].status = jobs[j].status]_vars

\* C5 as stated: once the status of a job is terminal, no operation changes
\* its progress, message, result, error, logs or completed_at.
C5_TerminalJobImmutable ==
    [][\A j \in DOMAIN jobs :
          jobs[j].status \in Terminal
          => /\ jobs'[j].progress = jobs[j].progress
             /\ jobs'[j].message = jobs[j].message
             /\ jobs'[j].result = jobs[j].result
             /\ jobs'[j].error = jobs[j].error
             /\ jobs'[j].logs = jobs[j].logs
             /\ jobs'[j].completed_at = jobs[j].completed_at]_vars

\* C6: cancel_job on a terminal job returns the job with no field changed,
\* appends no log entry and publishes nothing; on a queued or running job it
\* sets the status to cancelled, appends exactly one log entry and publishes
\* exactly one message, whose event is cancelled.
C6_CancelSemantics ==
    [][\A j \in DOMAIN jobs :
          Called("cancel_job", j)
          => IF jobs[j].status \in Terminal
             THEN /\ jobs' = jobs
                  /\ call'.ret = <<jobs[j]>>
                  /\ published' = published
                  /\ queues' = queues
             ELSE /\ jobs'[j].status = "cancelled"
                  /\ Len(jobs'[j].logs) = Len(jobs[j].logs) + 1
                  /\ IsPrefix(jobs[j].logs, jobs'[j].logs)
                  /\ Len(Hist(get_channel(j))') =
                        Len(Hist(get_channel(j))) + 1
                  /\ IsPrefix(Hist(get_channel(j)), Hist(get_channel(j))')
                  /\ Hist(get_channel(j))'[Len(Hist(get_channel(j))')].event
                        = "cancelled"
                  /\ \A c \in DOMAIN published :
                        c # get_channel(j) => published'[c] = published[c]]_vars

\* C6 witness: a queued job was cancelled, which logged one entry and
\* published the cancelled event, and a later cancel_job call on it returned
\* the job as it was.
C6_Witness ==
    /\ call.op = "cancel_job"
    /\ call.ret # <<>>
    /\ call.ret = <<jobs[call.id]>>
    /\ jobs[call.id].status = "cancelled"
    /\ jobs[call.id].completed_at + 1 < now
    /\ Len(jobs[call.id].logs) = 1
    /\ Len(Hist(get_channel(call.id))) = 2
    /\ Hist(get_channel(call.id))[2].event = "cancelled"

\* C7 as stated: an update_progress call on a running job never lowers the
\* recorded progress, whatever the percent argument.
C7_ProgressNeverDecreases ==
    [][\A j \in DOMAIN jobs :
          (Called("update_progress", j) /\ jobs[j].status = "running")
          => jobs'[j].progress >= jobs[j].progress]_vars

\* C8: for every operation the logs before it are a prefix of the logs after
\* it; start_job, add_log, complete_job, fail_job and an effective cancel_job
\* append exactly one entry, and every other call appends none.
C8_LogsAppendOnly ==
    [][\A j \in DOMAIN jobs :
          /\ IsPrefix(jobs[j].logs, jobs'[j].logs)
          /\ Len(jobs'[j].logs) - Len(jobs[j].logs) =
                IF \/ \E op \in {"start_job", "add_log", "complete_job",
                                 "fail_job"} : Called(op, j)
                   \/ /\ Called("cancel_job", j)
                      /\ jobs[j].status \in {"queued", "running"}
                THEN 1 ELSE 0]_vars

\* C8 witness: add_log has appended to a log that already held two entries.
C8_Witness ==
    /\ call.op = "add_log"
    /\ call.ret # <<>>
    /\ Len(jobs[call.id].logs) = 3
    /\ jobs[call.id].logs[3].message \in LogMessages

\* C9 as stated: every operation that changes a job record publishes exactly
\* one message on the channel of the job, named after the terminal status
\* when the operation made the job terminal and job_update otherwise.
C9_EveryChangePublishes ==
    [][\A j \in DOMAIN jobs' :
          (j \notin DOMAIN jobs \/ jobs'[j] # jobs[j])
          => /\ Len(Hist(get_channel(j))') = Len(Hist(get_channel(j))) + 1
             /\ Hist(get_channel(j))'[Len(Hist(get_channel(j))')].event =
                   IF /\ jobs'[j].status \in Terminal
                      /\ \E op \in {"complete_job", "fail_job", "cancel_job"} :
                            Called(op, j)
                   THEN jobs'[j].status
                   ELSE "job_update"]_vars

\* percents around the ends of the range and far outside it
ProbePercents == (-3..103) \cup {-1000000, 1000000}

\* C28: update_progress records 0 for a percent below 0, 100 for a percent
\* above 100 and the percent itself otherwise; after any sequence of
\* operations the progress of every job is between 0 and 100.
C28_ProgressClamped ==
    \A j \in DOMAIN jobs :
       /\ jobs[j].progress >= 0 /\ jobs[j].progress <= 100
       /\ \A p \in ProbePercents \cup Percents :
             update_progress_fields(jobs[j], p, None).progress
                = IF p < 0 THEN 0 ELSE IF p > 100 THEN 100 ELSE p

\* update_progress has just returned a running job whose progress it clamped
\* to 100
C28_Witness ==
    /\ call.op = "update_progress"
    /\ call.ret # <<>>
    /\ call.ret[1].progress = 100
    /\ call.ret[1].status = "running"
    /\ jobs[call.id].progress = 100

\* the operations that take the id of an existing job
OpsOnExisting ==
    {"start_job", "update_progress", "add_log", "complete_job", "fail_job",
     "cancel_job"}

\* C29: start_job, update_progress, add_log, complete_job, fail_job and
\* cancel_job called with an id that has no job record return None, leave
\* the jobs table as it is and publish no event.
C29_UnknownIdChangesNothing ==
    [][\A j \in JobIds : \A op \in OpsOnExisting :
          (Called(op, j) /\ j \notin DOMAIN jobs)
          => /\ call'.ret = <<>>
             /\ jobs' = jobs
             /\ published' = published
             /\ queues' = queues]_vars

\* complete_job has returned None for an id without a record while the other
\* job exists
C29_Witness ==
    /\ call.op = "complete_job"
    /\ call.ret = <<>>
    /\ call.id \notin DOMAIN jobs
    /\ DOMAIN jobs # {}

---------------------------------------------------------------------------
(* Properties of the stream (SpecSSE) *)

\* the output of a stream after its initial message
Body(st) == IF st.initial # <<>> /\ st.out # <<>> THEN Tail(st.out) ELSE st.out

\* the received messages in the output of a stream (pings left out)
Received(st) == SelectSeq(Body(st), LAMBDA e : e # encode(ping))

\* C10 as stated: once a stream has run, its output is the initial message if
\* one is given, then the messages published on the channel since the
\* subscription, in publish order, with pings in between; it stops only
\* right after the first terminal message, which is then the last element
\* of its output.
C10_StreamSequence ==
    \A s \in DOMAIN streams :
        LET st == streams[s]
            hist == Hist(st.channel)
            n == Len(Received(st))
        IN st.pc \notin {"created", "closed"} =>
             /\ st.initial # <<>> =>
                  st.out # <<>> /\ st.out[1] = encode(st.initial[1])
             /\ st.from + n <= Len(hist)
             /\ \A i \in 1..n : Received(st)[i] = encode(hist[st.from + i])
             /\ \A i \in 1..(n - 1) : hist[st.from + i].event \notin Terminal
             /\ st.pc = "waiting" =>
                  /\ n > 0 => hist[st.from + n].event \notin Terminal
                  /\ queues[st.sub] = SubSeq(hist, st.from + n + 1, Len(hist))
             /\ st.pc # "waiting" =>
                  /\ n > 0
                  /\ hist[st.from + n].event \in Terminal
                  /\ st.out[Len(st.out)] = encode(hist[st.from + n])

\* C40 as stated: every step of the specification is a whole call of the
\* manager (or a whole iteration of a stream), so no call is in progress in
\* any state; the channel table then holds no channel whose subscriber set
\* is empty.
C40_NoEmptyChannel == \A c \in DOMAIN channels : channels[c] # {}

---------------------------------------------------------------------------
(* Properties of the job stream endpoint (SpecStreamJob) *)

\* the stream was opened for a job that was terminal at that moment
OpenedTerminal(st) ==
    st.initial # <<>> /\ st.initial[1].data.status \in Terminal

\* C12: a job stream opened for a job that is completed, failed or cancelled
\* carries the state the job has when it is opened, yields that one message
\* and nothing else (no ping), then ends; it never subscribes, and none of
\* its steps touches the channel table or a queue.
C12_TerminalJobStream ==
    /\ [](\A s \in DOMAIN streams :
            OpenedTerminal(streams[s]) =>
              /\ streams[s].pc \in {"single_created", "single_yielded",
                                     "done", "closed"}
              /\ streams[s].sub = 0
              /\ streams[s].channel = None
              /\ streams[s].pc = "single_created" => streams[s].out = <<>>
              /\ streams[s].pc \in {"single_yielded", "done"} =>
                    streams[s].out = <<encode(streams[s].initial[1])>>
              /\ Len(streams[s].out) <= 1
              /\ \A i \in DOMAIN streams[s].out :
                    streams[s].out[i] # encode(ping))
    /\ [][\A s \in DOMAIN streams' :
            (/\ OpenedTerminal(streams'[s])
             /\ s \in DOMAIN streams => streams'[s] # streams[s])
            => /\ channels' = channels
               /\ queues' = queues
               /\ s \notin DOMAIN streams =>
                     \E j \in DOMAIN jobs :
                        /\ jobs[j].status \in Terminal
                        /\ streams'[s].initial[1] =
                              SSEMessage(to_dict(jobs[j]), "job_update",
                                         <<"0">>)]_vars

\* C12 witness: a stream opened for a cancelled job has yielded the one
\* message and ended, and the channel table is empty.
C12_Witness ==
    \E s \in DOMAIN streams :
        /\ streams[s].pc = "done"
        /\ streams[s].initial[1].data.status = "cancelled"
        /\ Len(streams[s].out) = 1
        /\ channels = <<>>

\* the outputs of a stream that show a terminal status: its initial message
\* if the job was terminal when it was read, and the terminal events
\* published on its channel
TerminalOutputs(st) ==
    {encode(st.initial[i]) : i \in {k \in DOMAIN st.initial :
                                      st.initial[k].data.status \in Terminal}}
    \cup {encode(Hist(st.channel)[i]) :
             i \in {k \in DOMAIN Hist(st.channel) :
                      Hist(st.channel)[k].event \in Terminal}}

\* C32 as stated, its safety part: a job stream that has stopped (its
\* generator returned or raised) while its job is in a terminal status has
\* given the client a message that shows a terminal status.
C32_EndedStreamShowedTerminal ==
    \A s \in DOMAIN streams :
        LET st == streams[s]
        IN (/\ st.pc \in {"done", "raised"}
            /\ st.initial # <<>>
            /\ st.initial[1].data.id \in DOMAIN jobs
            /\ jobs[st.initial[1].data.id].status \in Terminal)
           => \E i \in DOMAIN st.out : st.out[i] \in TerminalOutputs(st)

---------------------------------------------------------------------------
(* Properties of the preview build (SpecBuild) *)

\* the indices of the assets whose processing raised in the download, the
\* tiling or the upload
FailedAssets(loc) ==
    {k \in DOMAIN loc.outcomes :
        loc.outcomes[k] \in {"download", "tiling", "upload"}}

\* the error-level log entries of a job
ErrorLogs(j) == SelectSeq(jobs[j].logs, LAMBDA e : e.level = "error")

\* a preview build went through the loop over its assets and returned after
\* the manifest step succeeded, with no exception other than those of
\* _generate_tiles_for_asset
BuildReturned(r) ==
    /\ run[r].pc = "returned"
    /\ run[r].manifest # <<>>
    /\ \A k \in DOMAIN run[r].outcomes : run[r].outcomes[k] # "log"

\* the part of C13 on the status, the log and the remaining assets: the job is
\* completed, every asset was processed, and the error-level entries are one
\* per failed asset, each naming the level of its asset
BuildTolerates(r) ==
    LET loc == run[r]
        job == jobs[loc.job_id]
    IN /\ job.status = "completed"
       /\ Len(loc.outcomes) = Len(loc.base_maps)
       /\ Len(ErrorLogs(loc.job_id)) = Cardinality(FailedAssets(loc))
       /\ \A k \in FailedAssets(loc) :
             \E i \in DOMAIN job.logs :
                /\ job.logs[i].level = "error"
                /\ \E e \in {"Failed to download asset",
                             "cannot identify image file", "Upload failed"} :
                      job.logs[i].message =
                          "Failed to generate tiles for "
                          \o asset_level(loc.base_maps[k]) \o ": " \o e

KeysUnderBuild(build_id) ==
    LET folder == "mp/" \o Slug \o "/builds/" \o build_id \o "/" IN
    {folder \o "release.json"}
    \cup {folder \o "tiles/" \o level \o "/" \o n :
             level \in {asset_level(a) : a \in UNION AssetSets},
             n \in TileNames}

\* C25: no step of a preview build, whatever its outcome, changes a version
\* row or the current release of the project, and every object a step
\* writes to storage has its key under mp/<slug>/builds/<buildId>/ of the
\* run.
C25_BuildLeavesPublishedState ==
    [][/\ version' = version
       /\ project' = project
       /\ \A k \in DOMAIN storage' :
             (k \notin DOMAIN storage \/ storage'[k] # storage[k])
             => \E r \in Runs : k \in KeysUnderBuild(run'[r].build_id)]_vars

\* a build has returned after writing tiles and the manifest, on a project
\* that has a current release
C25_Witness ==
    \E r \in Runs :
       /\ BuildReturned(r)
       /\ jobs[run[r].job_id].status = "completed"
       /\ run[r].build_path \o "/release.json" \in DOMAIN storage
       /\ Cardinality(DOMAIN storage) >= 3
       /\ project[1].current_release_id = "rel_0"
       /\ version = <<DraftVersion>>

---------------------------------------------------------------------------
(* Properties of the four orchestrators (SpecOrchestrators) *)

\* the steps at which an orchestrator fails its job because the validation
\* failed: project or version not found, version not a draft, building not
\* found
ValidationFailSteps ==
    {"fail_validation", "fail_not_found", "b_fail_not_found",
     "b_fail_status", "v_fail_not_found"}

\* the error of the job after the fail_job of a validation failure
ValidationError(loc) ==
    CASE loc.pc = "fail_validation" ->
            IF get_version = <<>>
            THEN "Validation failed: Project or version not found"
            ELSE "Validation failed: Only draft versions can be published"
      [] loc.pc \in {"fail_not_found", "b_fail_not_found"} ->
            "Project or version not found"
      [] loc.pc = "b_fail_status" ->
            "Cannot build version with status: published"
      [] loc.pc = "v_fail_not_found" -> "Building not found"

\* the run has returned after a validation failure
ReturnedInvalid(r) ==
    /\ run[r].pc = "returned"
    /\ jobs[run[r].job_id].status = "failed"
    /\ jobs[run[r].job_id].error \notin
          {"Failed to build release manifest", "Failed to build manifest"}

\* the objects a run finds in the store: tiles of an earlier build or of the
\* staging area
SourceKeys ==
    {staging_tiles_prefix \o n : n \in TileNames}
    \cup {BuildPath \o "/tiles/" \o n : n \in TileNames}

\* nothing was written to the store, no manifest was built, and the version,
\* the project and the views are as the run found them
NoWorkDone(r) ==
    /\ DOMAIN storage \subseteq SourceKeys
    /\ \A k \in DOMAIN storage : storage[k] = "tile"
    /\ "manifest" \in DOMAIN run[r] => run[r].manifest = <<>>
    /\ ~WroteVersion(r)
    /\ project # <<>> /\ "current_release_id" \in DOMAIN project[1]
          => project[1].current_release_id \in {None, "rel_0"}
    /\ project # <<>> /\ "views" \in DOMAIN project[1]
          => \A v \in project[1].views :
                ~v.tiles_generated /\ v.view_box = None

\* C14: when the validation of an orchestrator fails (project or version not
\* found, version not a draft, building not found), nothing has been written
\* to storage, no manifest has been built and no version, project or view
\* row has been changed, and the fail_job step sets the job to failed with
\* the validation error and changes none of them either.
C14_ValidationFailureDoesNoWork ==
    /\ [](\A r \in Runs :
            run[r].pc \in ValidationFailSteps \/ ReturnedInvalid(r)
               => NoWorkDone(r))
    /\ [][\A r \in Runs :
            run[r].pc \in ValidationFailSteps /\ run'[r].pc = "returned"
               => /\ jobs'[run[r].job_id].status = "failed"
                  /\ jobs'[run[r].job_id].error = ValidationError(run[r])
                  /\ UNCHANGED <<storage, version, project>>]_vars

\* C14 witness: a preview build returned after failing its job because the
\* version was no longer a draft.
C14_Witness ==
    \E r \in Runs :
       /\ ReturnedInvalid(r)
       /\ jobs[run[r].job_id].error =
             "Cannot build version with status: published"
       /\ jobs[run[r].job_id].job_type = "build"

\* the steps whose exceptions an inner except clause handles: the tile copy
\* of the publish run and the job tracker calls of a loop body
HandledInside == InnerTry \cup InnerTryLog \cup InsidePool

Ended(r) == run[r].pc \in {"returned", "raised"}

TransferReturned(r) == run[r].pc \in {"log_copied", "v_log_generated"}

\* the items handed to the bulk transfer of the run
TransferItems(loc) ==
    IF loc.pc = "log_copied" THEN loc.tiles_list ELSE loc.tile_files

\* the success count the bulk transfer returned
TransferCount(loc) ==
    IF loc.pc = "log_copied" THEN loc.total_copied
    ELSE DictItems(loc.all_tiles_metadata)[current_view(loc).ref].tile_count

ViewTileKeys(ref) ==
    {BuildPath \o "/tiles/buildings/b1/" \o ref \o "/" \o t : t \in TileNames}

\* C26 as stated: a view of the building carries the flag tiles_generated
\* only if its tiling and the upload of every one of its tiles succeeded; a
\* view whose processing failed or any of whose tile uploads failed is not
\* flagged (no view is flagged before the run).
C26_FlaggedOnlyOnSuccess ==
    (project # <<>> /\ "views" \in DOMAIN project[1])
    => \A v \in project[1].views :
          v.tiles_generated => ViewTileKeys(v.ref) \subseteq DOMAIN storage

---------------------------------------------------------------------------
(* Properties of the thread pool of a bulk transfer (SpecPool) *)

\* the items whose worker has finished with a successful transfer
Succeeded(loc) == {t \in loc.items : loc.th[t] = "returned"}

\* C33: under every interleaving of the workers, the shared counter never
\* decreases and never exceeds the number of items, the value the
\* orchestrator has sampled is at most the number of transfers that have
\* succeeded, and once the pool has shut down (the function returned, or an
\* exception left the with block) the counter is the number of items whose
\* transfer succeeded.
C33_CounterLosesNoUpdate ==
    /\ [](\A r \in DOMAIN run :
            /\ run[r].count <= Cardinality(run[r].items)
            /\ run[r].count <= Cardinality(run[r].transferred)
            /\ run[r].current <= Cardinality(run[r].transferred)
            /\ run[r].current <= run[r].count
            /\ run[r].pc \in {"pool_returned", "pool_raised"} =>
                 /\ run[r].count = Cardinality(Succeeded(run[r]))
                 /\ Succeeded(run[r]) = run[r].transferred)
    /\ [][\A r \in DOMAIN run : run'[r].count >= run[r].count]_vars

\* C33 witness: while a worker is between its read and its write of the
\* counter, another worker that has finished its transfer waits for the lock,
\* a third one has already counted its item, and the orchestrator has
\* sampled that count.
C33_Witness ==
    \E r \in DOMAIN run :
        /\ run[r].kind = "upload"
        /\ \E t, u, v \in run[r].items :
              /\ run[r].th[t] = "adding"
              /\ run[r].th[u] = "locking"
              /\ run[r].th[v] = "returned"
        /\ run[r].count = 1
        /\ run[r].current = 1

---------------------------------------------------------------------------
(* Properties of the progress calls (SpecProgress) *)

---------------------------------------------------------------------------
(* Properties of the release service (SpecManifest) *)

\* C17 as stated: two manifests built for the same level from the same set
\* of overlays carry the same checksum, in whatever order the overlays were
\* retrieved, overlays that tie on sort_order and ref included.
C17_ChecksumIndependentOfOrder ==
    \A r \in Runs :
       \A i, j \in DOMAIN run[r].built :
          run[r].built[i].level = run[r].built[j].level
             => run[r].built[i].checksum = run[r].built[j].checksum

\* the overlays of the project that belong in the manifest of a level
OverlaysOfLevel(level) ==
    IF level = "project"
    THEN {o \in project[1].overlays : o.overlay_type = "zone"}
    ELSE {o \in project[1].overlays :
             o.source_level = level /\ o.overlay_type # "zone"}

\* C19: the overlays of a manifest built for level "project" are exactly the
\* zone overlays of the project; those of a manifest built for another level
\* L are exactly the overlays that are no zone and whose source_level is L;
\* each of them appears once and no other overlay appears.
C19_ManifestOverlaysOfLevel ==
    \A r \in Runs :
       \A i \in DOMAIN run[r].built :
          LET m == run[r].built[i]
              expected == {ReleaseOverlay(o) : o \in OverlaysOfLevel(m.level)}
          IN /\ {m.overlays[k] : k \in DOMAIN m.overlays} = expected
             /\ Len(m.overlays) = Cardinality(expected)

\* a manifest of zone-a holding two overlays, built of a project that also
\* has a zone drawn on zone-a, a zone of the project and a unit of zone-b
C19_Witness ==
    \E r \in Runs :
       \E i \in DOMAIN run[r].built :
          /\ run[r].built[i].level = "zone-a"
          /\ Len(run[r].built[i].overlays) = 2
          /\ {ZoneA, ZoneSub, UnitB} \subseteq project[1].overlays

\* the level tags of the overlays that are no zone, without the missing
\* ones (NULL, empty) and "project"
ContentLevels ==
    {o.source_level :
        o \in {q \in project[1].overlays : q.overlay_type # "zone"}}
    \ {None, "", "project"}

\* C20: get_zone_levels returns each level tag of the non-zone overlays of
\* the project once, without "project" and without missing tags, and nothing
\* else; so a manifest built for a returned level holds at least one
\* overlay.
C20_ZoneLevelsHaveContent ==
    \A r \in Runs :
       run[r].pc = "m_levels" =>
          /\ {run[r].levels[k] : k \in DOMAIN run[r].levels} = ContentLevels
          /\ Len(run[r].levels) = Cardinality(ContentLevels)
          /\ \A i \in DOMAIN run[r].built :
                (\E k \in DOMAIN run[r].levels :
                    run[r].levels[k] = run[r].built[i].level)
                   => Len(run[r].built[i].overlays) >= 1

\* two levels returned for a project that has zones and overlays tagged
\* "project", NULL and empty, after a manifest was built for one of them
C20_Witness ==
    \E r \in Runs :
       /\ run[r].pc = "m_levels"
       /\ Len(run[r].levels) = 2
       /\ {ZoneA, ZoneSub, UnitP, UnitN, UnitE} \subseteq project[1].overlays
       /\ \E i \in DOMAIN run[r].built :
             \E k \in DOMAIN run[r].levels :
                run[r].levels[k] = run[r].built[i].level

---------------------------------------------------------------------------
(* Properties of the tile service (SpecTileService) *)

TileRunReturned(r) == run[r].pc = "ts_returned"

\* width and height of the image of level L of the pyramid of run r:
\* max(1, dimension div 2^(levels - L - 1))
LevelWidth(r, L) ==
    IF run[r].width \div Pow2(run[r].levels - L - 1) >= 1
    THEN run[r].width \div Pow2(run[r].levels - L - 1) ELSE 1
LevelHeight(r, L) ==
    IF run[r].height \div Pow2(run[r].levels - L - 1) >= 1
    THEN run[r].height \div Pow2(run[r].levels - L - 1) ELSE 1

\* the least c with c * b >= a
CeilOf(a, b) == CHOOSE c \in 0..a : c * b >= a /\ \A d \in 0..a : d * b >= a => c <= d

\* the cells of the tile grid of level L
GridCells(r, L) ==
    {<<L, x, y>> : x \in {c \in 0..MaxDim : c * run[r].tile_size < LevelWidth(r, L)},
                   y \in {c \in 0..MaxDim : c * run[r].tile_size < LevelHeight(r, L)}}

\* the sum of f over the set S
SumOver(S, f(_)) ==
    LET RECURSIVE sum(_)
        sum(T) == IF T = {} THEN 0
                  ELSE LET e == CHOOSE e \in T : TRUE
                       IN f(e) + sum(T \ {e})
    IN sum(S)

\* C21: a finished generate_tiles has written exactly the tiles of the grid
\* cells of every level, none skipped, and reports as tile_count the sum over
\* the levels of ceil(levelWidth / tileSize) * ceil(levelHeight / tileSize).
C21_TileCountIsGridSum ==
    \A r \in Runs :
       TileRunReturned(r) =>
          LET tiles_of(L) == CeilOf(LevelWidth(r, L), run[r].tile_size)
                             * CeilOf(LevelHeight(r, L), run[r].tile_size)
              total == SumOver(0..(run[r].levels - 1), tiles_of)
          IN /\ DOMAIN run[r].files
                  = UNION {GridCells(r, L) : L \in 0..(run[r].levels - 1)}
             /\ Cardinality(DOMAIN run[r].files) = total
             /\ run[r].result[1].tile_count = total

\* a finished run of several levels whose full-size level has a partial
\* last column and a partial last row
C21_Witness ==
    \E r \in Runs :
       /\ TileRunReturned(r)
       /\ run[r].levels >= 2
       /\ run[r].width % run[r].tile_size # 0
       /\ run[r].height % run[r].tile_size # 0
       /\ run[r].result[1].tile_count > 3

\* the number of integer halvings that bring n to at most tile_size
Halvings(n, tile_size) ==
    CHOOSE k \in 0..n :
       /\ n \div Pow2(k) <= tile_size
       /\ \A j \in 0..n : n \div Pow2(j) <= tile_size => k <= j

\* C22: the number of levels is 1 plus the number of integer halvings that
\* bring max(width, height) to at most the tile size; 4096 x 4096 with tile
\* size 256 gives 5 levels.
C22_LevelsAreHalvingsPlusOne ==
    /\ \A r \in Runs :
          run[r].pc # "ts_open" =>
             run[r].levels
                = 1 + Halvings(IF run[r].width > run[r].height
                               THEN run[r].width ELSE run[r].height,
                               run[r].tile_size)
    /\ levels_from(4096, 1, 256) = 5

\* the levels were counted for an image whose larger side is exactly twice
\* the tile size, and for one that needs two halvings
C22_Witness ==
    \E r \in Runs :
       /\ run[r].pc = "ts_level" /\ run[r].level = 0
       /\ \/ run[r].levels = 2 /\ run[r].width = 2 * run[r].tile_size
                               /\ run[r].height <= run[r].width
          \/ run[r].levels = 3

\* C23: the image of level 0 is at most one tile wide and high and level 0
\* consists of the single tile 0_0; an image that is at most the tile size
\* in both dimensions gives 1 level and 1 tile.
C23_SmallestLevelIsOneTile ==
    \A r \in Runs :
       /\ (run[r].pc = "ts_tile" /\ run[r].level = 0)
          => /\ run[r].level_width <= run[r].tile_size
             /\ run[r].level_height <= run[r].tile_size
             /\ run[r].cols = 1 /\ run[r].rows = 1
       /\ TileRunReturned(r)
          => /\ {k \in DOMAIN run[r].files : k[1] = 0} = {<<0, 0, 0>>}
             /\ run[r].files[<<0, 0, 0>>].right <= run[r].tile_size
             /\ run[r].files[<<0, 0, 0>>].bottom <= run[r].tile_size
             /\ (run[r].width <= run[r].tile_size
                 /\ run[r].height <= run[r].tile_size)
                => /\ run[r].result[1].levels = 1
                   /\ run[r].result[1].tile_count = 1

\* a finished pyramid of several levels of an image that is not square
C23_Witness ==
    \E r \in Runs :
       /\ TileRunReturned(r)
       /\ run[r].result[1].levels >= 2
       /\ run[r].width # run[r].height
       /\ <<0, 0, 0>> \in DOMAIN run[r].files

\* C24: at every level of a finished pyramid, tile (x, y) covers the columns
\* from x * tileSize to min((x + 1) * tileSize, levelWidth) and the rows
\* from y * tileSize to min((y + 1) * tileSize, levelHeight); no tile is
\* empty or larger than the tile size, only tiles of the last column or row
\* are smaller, every pixel of the level image lies in exactly one tile, and
\* the widths of a row sum to levelWidth, the heights of a column to
\* levelHeight.
C24_TilesPartitionLevel ==
    \A r \in Runs :
       TileRunReturned(r) =>
          LET ts == run[r].tile_size
              files == run[r].files
              lw(L) == LevelWidth(r, L)
              lh(L) == LevelHeight(r, L)
              w(k) == files[k].right - files[k].left
              h(k) == files[k].bottom - files[k].top
          IN /\ \A k \in DOMAIN files :
                   /\ files[k].left = k[2] * ts
                   /\ files[k].top = k[3] * ts
                   /\ files[k].right = IF (k[2] + 1) * ts < lw(k[1])
                                       THEN (k[2] + 1) * ts ELSE lw(k[1])
                   /\ files[k].bottom = IF (k[3] + 1) * ts < lh(k[1])
                                        THEN (k[3] + 1) * ts ELSE lh(k[1])
                   /\ w(k) >= 1 /\ w(k) <= ts /\ h(k) >= 1 /\ h(k) <= ts
                   /\ w(k) < ts => <<k[1], k[2] + 1, k[3]>> \notin DOMAIN files
                   /\ h(k) < ts => <<k[1], k[2], k[3] + 1>> \notin DOMAIN files
                   /\ SumOver({j \in DOMAIN files :
                                 j[1] = k[1] /\ j[3] = k[3]}, w) = lw(k[1])
                   /\ SumOver({j \in DOMAIN files :
                                 j[1] = k[1] /\ j[2] = k[2]}, h) = lh(k[1])
             /\ \A L \in 0..(run[r].levels - 1) :
                   \A c \in 0..(lw(L) - 1), d \in 0..(lh(L) - 1) :
                      Cardinality({k \in DOMAIN files :
                                     /\ k[1] = L
                                     /\ files[k].left <= c /\ c < files[k].right
                                     /\ files[k].top <= d /\ d < files[k].bottom})
                         = 1

\* a finished pyramid whose full-size level has three columns, the last one
\* narrower than the tile size, and more than one row
C24_Witness ==
    \E r \in Runs :
       /\ TileRunReturned(r)
       /\ run[r].tile_size = 2
       /\ <<run[r].levels - 1, 2, 1>> \in DOMAIN run[r].files
       /\ run[r].files[<<run[r].levels - 1, 2, 1>>].right
            - run[r].files[<<run[r].levels - 1, 2, 1>>].left = 1

====
